---- MODULE Spec2Model ----
(***************************************************************************)
(* Runtime firmware-control subsystem of the Raspberry Pi Pico examples:   *)
(* the line accumulator, the command dispatchers of blink_led_enhanced and *)
(* temperature_enhanced, the runtime update (bootloader transition) module *)
(* and the periodic LED / telemetry work of the two main loops; further    *)
(* the accumulator of temperature_simple and the host tool                 *)
(* runtime_flash.sh.                                                       *)
(*                                                                         *)
(* Characters are ASCII codes, a C string is the sequence of its bytes     *)
(* before the terminating NUL.  Time is counted in quanta of Quantum(fw)   *)
(* milliseconds of the monotonic clock.                                    *)
(***************************************************************************)
EXTENDS Integers, Sequences, FiniteSets, TLC

VARIABLES
    fw,                       \* which firmware image runs: "blink" | "temp" | "simple"
    chan,                     \* stdio driver the host talks to: "usb" | "uart"
    usb_on,                   \* USB stdio driver still initialised
    wire,                     \* bytes sent by the host and not yet read
    command_buffer,           \* accumulated bytes; buffer_pos = Len(command_buffer)
    c,                        \* what getchar_timeout_us returned in the latest step
    segment,                  \* history: the bytes read since the latest terminator
    pc,                       \* position of the single execution context
    now,                      \* monotonic clock, in quanta
    boot,                     \* "Armed" | "Quiescing" | "Committed"
    reset_path,               \* reset function entered: "none" | "BOOTSEL" | ...
    scratch4,                 \* watchdog scratch[4] (bootloader marker)
    watchdog_enabled,         \* watchdog armed by watchdog_enable
    handler,                  \* handler run in the latest step ("none" if none)
    cmd,                      \* line handed to the dispatcher in the latest step
    out,                      \* text printed in the latest step
    led_enabled, current_delay, led_state, last_blink_time, gpio_led,
    temp_monitoring_enabled, report_interval_ms, last_report_time,
    reading_count, temperature_sum, min_temp, max_temp,
    temp_history, history_index,
    recorded,                 \* history: the readings recorded since the latest reset
    recent,                   \* history: the latest of them, at most N, oldest first
    written,                  \* history: the slots written since the latest reset
    stale,                    \* history: slots still holding a reading from before it
    flash                     \* the host's flashing tool runtime_flash.sh

ioVars    == <<fw, chan, usb_on, wire, command_buffer>>
bootVars  == <<boot, reset_path, scratch4, watchdog_enabled>>
blinkVars == <<led_enabled, current_delay, led_state, last_blink_time, gpio_led>>
statVars  == <<reading_count, temperature_sum, min_temp, max_temp,
               temp_history, history_index, recorded, recent,
               written, stale>>
tempVars  == <<temp_monitoring_enabled, report_interval_ms, last_report_time,
               statVars>>
appVars   == <<blinkVars, tempVars>>
deviceVars == <<ioVars, c, segment, pc, now, bootVars, handler, cmd, out, appVars>>
vars == <<deviceVars, flash>>

\* runtime_flash.sh has not been started
FlashIdle == [hpc |-> "idle"]

(***************************************************************************)
(* Bounds of the model.                                                    *)
(***************************************************************************)
MaxTime == 2                  \* the clock is observed for this many quanta
MaxRecordings == 11           \* readings taken in a run of the telemetry aggregator
MaxNearWrap == 10             \* distance of the reading count from a carry of its low half

(***************************************************************************)
(* Program constants.                                                      *)
(***************************************************************************)
BLINK_DELAY_MS             == 250
DEFAULT_REPORT_INTERVAL_MS == 2000
TEMP_HISTORY_SIZE          == 10
ADC_RESOLUTION             == 4096               \* 12-bit ADC
VOLTAGE_REFERENCE          == 33000              \* 3.3 V, in units of 0.1 mV
TEMP_SENSOR_VOLTAGE_27C    == 7060               \* 0.706 V, in units of 0.1 mV
TEMP_SENSOR_SLOPE          == 1721               \* 0.001721 V per degree, in uV
BUFFER_SIZE                == 64
BOOTSEL_MAGIC              == <<45063, 49363>>   \* 0xb007c0d3 as <<0xb007, 0xc0d3>>
MIN_TEMP_SENTINEL          == 1000
MAX_TEMP_SENTINEL          == -1000
PICO_ERROR_TIMEOUT         == -1
NUL == 0
LF  == 10
CR  == 13

CMD_HELP        == <<72,69,76,80>>
CMD_STATUS      == <<83,84,65,84,85,83>>
CMD_SPEED_FAST  == <<70,65,83,84>>
CMD_SPEED_SLOW  == <<83,76,79,87>>
CMD_STOP        == <<83,84,79,80>>
CMD_START       == <<83,84,65,82,84>>
CMD_TEMP        == <<84,69,77,80>>
CMD_STATS       == <<83,84,65,84,83>>
CMD_HISTORY     == <<72,73,83,84,79,82,89>>
CMD_INTERVAL    == <<73,78,84,69,82,86,65,76>>
CMD_START_TEMP  == <<83,84,65,82,84,95,84,69,77,80>>
CMD_STOP_TEMP   == <<83,84,79,80,95,84,69,77,80>>
CMD_RESET_STATS == <<82,69,83,69,84,95,83,84,65,84,83>>
KW_BOOTSEL       == <<66,79,79,84,83,69,76>>
KW_RESET_BOOTSEL == <<82,69,83,69,84,95,66,79,79,84,83,69,76>>
KW_RESET         == <<82,69,83,69,84>>
KW_INFO          == <<73,78,70,79>>
KW_PREPARE       == <<80,82,69,80,65,82,69>>


(***************************************************************************)
(* Input vocabulary of the host and sensor.                                *)
(***************************************************************************)
L_INTERVAL_1000 == <<73,78,84,69,82,86,65,76,32,49,48,48,48>>   \* "INTERVAL 1000"
L_INTERVAL_500  == <<73,78,84,69,82,86,65,76,32,53,48,48>>      \* "INTERVAL 500"
L_INTERVAL_99999 == <<73,78,84,69,82,86,65,76,32,57,57,57,57,57>>   \* "INTERVAL 99999"
L_INTERVAL_60001 == <<73,78,84,69,82,86,65,76,32,54,48,48,48,49>>   \* "INTERVAL 60001"
L_INTERVAL_499   == <<73,78,84,69,82,86,65,76,32,52,57,57>>         \* "INTERVAL 499"
L_INTERVAL_abc   == <<73,78,84,69,82,86,65,76,32,97,98,99>>         \* "INTERVAL abc"
L_INTERVAL_neg   == <<73,78,84,69,82,86,65,76,32,45,57,48,48>>      \* "INTERVAL -900"
L_INTERVAL_1000x == <<73,78,84,69,82,86,65,76,32,49,48,48,48,120>>  \* "INTERVAL 1000x"
L_INTERVAL_9     == <<73,78,84,69,82,86,65,76,57>>                  \* "INTERVAL9"
L_INTERVAL9500   == <<73,78,84,69,82,86,65,76,57,53,48,48>>         \* "INTERVAL9500"
L_bootsel       == <<98,111,111,116,115,101,108>>               \* "bootsel"
L_XYZ           == <<88,89,90>>                                 \* "XYZ"
L_EMPTY         == <<>>                                         \* a bare terminator
L_LONG          == [i \in 1..(BUFFER_SIZE + 1) |-> 65]          \* "AAAA...A", 65 bytes

\* the keywords of the command table, each as a complete line
TableLines ==
    { CMD_HELP, CMD_STATUS, CMD_SPEED_FAST, CMD_SPEED_SLOW, CMD_START, CMD_STOP,
      CMD_TEMP, CMD_STATS, CMD_HISTORY, L_INTERVAL_1000, CMD_START_TEMP,
      CMD_STOP_TEMP, CMD_RESET_STATS,
      KW_BOOTSEL, KW_RESET_BOOTSEL, KW_RESET, KW_INFO, KW_PREPARE }

\* INTERVAL lines whose argument is not an accepted interval
IntervalArgLines ==
    { L_INTERVAL_99999, L_INTERVAL_60001, L_INTERVAL_499,
      L_INTERVAL_abc, L_INTERVAL_neg, L_INTERVAL_1000x }

\* INTERVAL lines of at most 9 characters, and one whose ninth character is
\* a digit in front of the argument
ShortIntervalLines == { CMD_INTERVAL, L_INTERVAL_9 }

Lines ==
    TableLines \cup IntervalArgLines \cup ShortIntervalLines
        \cup { L_INTERVAL_500, L_INTERVAL9500, L_bootsel, L_XYZ, L_LONG, L_EMPTY }

Terminators == { <<LF>>, <<CR, LF>> }

\* results of adc_read(): the 27 degree point and the top of the 12-bit range
AdcValues == { 876, ADC_RESOLUTION - 1 }

\* read_onboard_temperature for the conversion result adc_raw, in whole degrees
read_onboard_temperature(adc_raw) ==
    LET voltage == (adc_raw * VOLTAGE_REFERENCE) \div ADC_RESOLUTION
    IN  27 - ((voltage - TEMP_SENSOR_VOLTAGE_27C) * 100) \div TEMP_SENSOR_SLOPE

\* degrees the sensor can return
Readings == { read_onboard_temperature(adc_raw) : adc_raw \in AdcValues }

(***************************************************************************)
(* C library functions.                                                    *)
(***************************************************************************)
CharAt(s, i) == IF i <= Len(s) THEN s[i] ELSE NUL

\* strncmp(s1, s2, n) == 0: the first n characters agree, comparison stopping
\* after a NUL
StrNCmpEq(s1, s2, n) ==
    \A i \in 1..n :
        (\A j \in 1..(i - 1) : CharAt(s1, j) # NUL) => CharAt(s1, i) = CharAt(s2, i)

IsSpace(ch) == ch \in {32, 9, 10, 11, 12, 13}
IsDigit(ch) == ch \in 48..57

RECURSIVE SkipSpace(_, _)
SkipSpace(s, i) == IF IsSpace(CharAt(s, i)) THEN SkipSpace(s, i + 1) ELSE i

RECURSIVE AtoiDigits(_, _, _)
AtoiDigits(s, i, acc) ==
    IF IsDigit(CharAt(s, i)) THEN AtoiDigits(s, i + 1, acc * 10 + (s[i] - 48)) ELSE acc

\* atoi: optional white space, optional sign, decimal digits; 0 if there are none
Atoi(s) ==
    LET i == SkipSpace(s, 1)
        sign == CharAt(s, i)
    IN  IF sign = 45 THEN 0 - AtoiDigits(s, i + 1, 0)
        ELSE IF sign = 43 THEN AtoiDigits(s, i + 1, 0)
        ELSE AtoiDigits(s, i, 0)

\* (uint32_t)v >= lo && (uint32_t)v <= hi for an int v and 0 <= lo <= hi < 2^31:
\* a negative int converts to a value of at least 2^31, above hi
\* variant: the upper bound is not tested
Uint32InRange_no_upper(v, lo, hi) == v >= 0 /\ v >= lo

Uint32InRange(v, lo, hi) == v >= 0 /\ v >= lo /\ v <= hi

\* the string that starts k characters into s (the pointer s + k)
StrFrom(s, k) == SubSeq(s, k + 1, Len(s))

B(b) == IF b THEN 1 ELSE 0

Msg(tag, args) == [msg |-> tag, args |-> args]

Quantum(f) ==                                       \* ms per clock quantum
    IF f = "blink" THEN 125 ELSE IF f = "simple" THEN 2500 ELSE 1000

\* absolute_time_diff_us(from, to), in microseconds
AbsoluteTimeDiffUs(from, to) == (to - from) * Quantum(fw) * 1000

(***************************************************************************)
(* runtime_update.c: the bootloader transition controller.                 *)
(* A handler that returns leaves pc' = "sleep" (the rest of the loop       *)
(* iteration); the three reset functions never return.                     *)
(***************************************************************************)
\* variant: the ROM call is made with the output still unflushed
runtime_enter_bootsel_noflush ==
    /\ handler' = "BOOTSEL"
    /\ out' = <<Msg("entering_bootsel", <<>>)>>
    /\ boot' = boot
    /\ reset_path' = "BOOTSEL"
    /\ pc' = "enter_bootsel"
    /\ UNCHANGED <<usb_on, appVars>>

runtime_enter_bootsel ==
    /\ handler' = "BOOTSEL"
    /\ out' = <<Msg("entering_bootsel", <<>>)>>
    /\ boot' = "Quiescing"                       \* printf; stdio_flush()
    /\ reset_path' = "BOOTSEL"
    /\ pc' = "enter_bootsel"
    /\ UNCHANGED <<usb_on, appVars>>

runtime_reset_to_bootsel ==
    /\ handler' = "RESET_BOOTSEL"
    /\ out' = <<Msg("resetting_to_bootsel", <<>>)>>
    /\ boot' = "Quiescing"
    /\ reset_path' = "RESET_BOOTSEL"
    /\ pc' = "reset_to_bootsel"
    /\ UNCHANGED <<usb_on, appVars>>

\* variant: the function returns to its caller instead of arming and waiting
runtime_soft_reset_returns ==
    /\ handler' = "RESET"
    /\ out' = <<Msg("soft_reset", <<>>)>>
    /\ boot' = "Quiescing"
    /\ reset_path' = "RESET"
    /\ pc' = "sleep"
    /\ UNCHANGED <<usb_on, appVars>>

runtime_soft_reset ==
    /\ handler' = "RESET"
    /\ out' = <<Msg("soft_reset", <<>>)>>
    /\ boot' = "Quiescing"
    /\ reset_path' = "RESET"
    /\ pc' = "soft_reset"
    /\ UNCHANGED <<usb_on, appVars>>

runtime_get_device_info ==
    /\ handler' = "INFO"
    /\ out' = <<Msg("device_info", <<>>)>>
    /\ pc' = "sleep"
    /\ UNCHANGED <<boot, reset_path, usb_on, appVars>>

runtime_prepare_update ==
    /\ handler' = "PREPARE"
    /\ out' = <<Msg("preparing", <<>>), Msg("prepared", <<>>)>>
    /\ usb_on' = FALSE                           \* stdio_flush(); stdio_usb_deinit()
    /\ pc' = "sleep"
    /\ UNCHANGED <<boot, reset_path, appVars>>

runtime_unknown_command(command) ==
    /\ handler' = "unknown"
    /\ out' = <<Msg("unknown_command", command), Msg("available_commands", <<>>)>>
    /\ pc' = "sleep"
    /\ UNCHANGED <<boot, reset_path, usb_on, appVars>>

\* variant: RESET is tested before RESET_BOOTSEL
runtime_process_command_reordered(command) ==
    IF StrNCmpEq(command, KW_BOOTSEL, 7) THEN runtime_enter_bootsel
    ELSE IF StrNCmpEq(command, KW_RESET, 5) THEN runtime_soft_reset
    ELSE IF StrNCmpEq(command, KW_RESET_BOOTSEL, 13) THEN runtime_reset_to_bootsel
    ELSE IF StrNCmpEq(command, KW_INFO, 4) THEN runtime_get_device_info
    ELSE IF StrNCmpEq(command, KW_PREPARE, 7) THEN runtime_prepare_update
    ELSE runtime_unknown_command(command)

\* variant: RESET_BOOTSEL is compared on its first 6 characters only
runtime_process_command_short_compare(command) ==
    IF StrNCmpEq(command, KW_BOOTSEL, 7) THEN runtime_enter_bootsel
    ELSE IF StrNCmpEq(command, KW_RESET_BOOTSEL, 6) THEN runtime_reset_to_bootsel
    ELSE IF StrNCmpEq(command, KW_RESET, 5) THEN runtime_soft_reset
    ELSE IF StrNCmpEq(command, KW_INFO, 4) THEN runtime_get_device_info
    ELSE IF StrNCmpEq(command, KW_PREPARE, 7) THEN runtime_prepare_update
    ELSE runtime_unknown_command(command)

runtime_process_command(command) ==
    IF StrNCmpEq(command, KW_BOOTSEL, 7) THEN runtime_enter_bootsel
    ELSE IF StrNCmpEq(command, KW_RESET_BOOTSEL, 13) THEN runtime_reset_to_bootsel
    ELSE IF StrNCmpEq(command, KW_RESET, 5) THEN runtime_soft_reset
    ELSE IF StrNCmpEq(command, KW_INFO, 4) THEN runtime_get_device_info
    ELSE IF StrNCmpEq(command, KW_PREPARE, 7) THEN runtime_prepare_update
    ELSE runtime_unknown_command(command)

\* an application handler: returns to the loop, touches no bootloader state
AppReturn(h, text) ==
    /\ handler' = h
    /\ out' = text
    /\ pc' = "sleep"
    /\ UNCHANGED <<boot, reset_path, usb_on>>

(***************************************************************************)
(* blink_led_enhanced.c                                                    *)
(***************************************************************************)
\* variant: STATUS switches the LED blinking back on
process_app_commands_status_enables(command) ==
    IF StrNCmpEq(command, CMD_HELP, 4) THEN
        /\ AppReturn("HELP", <<Msg("help", <<>>)>>)
        /\ UNCHANGED appVars
    ELSE IF StrNCmpEq(command, CMD_STATUS, 6) THEN
        /\ led_enabled' = TRUE
        /\ AppReturn("STATUS",
               <<Msg("status", <<B(led_state), B(led_enabled), current_delay>>)>>)
        /\ UNCHANGED <<current_delay, led_state, last_blink_time, gpio_led, tempVars>>
    ELSE IF StrNCmpEq(command, CMD_SPEED_FAST, 4) THEN
        /\ current_delay' = 125
        /\ AppReturn("FAST", <<Msg("fast", <<125>>)>>)
        /\ UNCHANGED <<led_enabled, led_state, last_blink_time, gpio_led, tempVars>>
    ELSE IF StrNCmpEq(command, CMD_SPEED_SLOW, 4) THEN
        /\ current_delay' = 1000
        /\ AppReturn("SLOW", <<Msg("slow", <<1000>>)>>)
        /\ UNCHANGED <<led_enabled, led_state, last_blink_time, gpio_led, tempVars>>
    ELSE IF StrNCmpEq(command, CMD_START, 5) THEN
        /\ led_enabled' = TRUE
        /\ AppReturn("START", <<Msg("led_enabled", <<>>)>>)
        /\ UNCHANGED <<current_delay, led_state, last_blink_time, gpio_led, tempVars>>
    ELSE IF StrNCmpEq(command, CMD_STOP, 4) THEN
        /\ led_enabled' = FALSE
        /\ gpio_led' = 0
        /\ led_state' = FALSE
        /\ AppReturn("STOP", <<Msg("led_disabled", <<>>)>>)
        /\ UNCHANGED <<current_delay, last_blink_time, tempVars>>
    ELSE runtime_process_command(command)

\* variant: STOP disables the blinking and leaves the output as it is
stop_command_keeps_output ==
    /\ led_enabled' = FALSE
    /\ AppReturn("STOP", <<Msg("led_disabled", <<>>)>>)
    /\ UNCHANGED <<current_delay, led_state, gpio_led, last_blink_time, tempVars>>

\* the STOP branch
stop_command ==
    /\ led_enabled' = FALSE
    /\ gpio_led' = 0
    /\ led_state' = FALSE
    /\ AppReturn("STOP", <<Msg("led_disabled", <<>>)>>)
    /\ UNCHANGED <<current_delay, last_blink_time, tempVars>>

process_app_commands(command) ==
    IF StrNCmpEq(command, CMD_HELP, 4) THEN
        /\ AppReturn("HELP", <<Msg("help", <<>>)>>)
        /\ UNCHANGED appVars
    ELSE IF StrNCmpEq(command, CMD_STATUS, 6) THEN
        /\ AppReturn("STATUS",
               <<Msg("status", <<B(led_state), B(led_enabled), current_delay>>)>>)
        /\ UNCHANGED appVars
    ELSE IF StrNCmpEq(command, CMD_SPEED_FAST, 4) THEN
        /\ current_delay' = 125
        /\ AppReturn("FAST", <<Msg("fast", <<125>>)>>)
        /\ UNCHANGED <<led_enabled, led_state, last_blink_time, gpio_led, tempVars>>
    ELSE IF StrNCmpEq(command, CMD_SPEED_SLOW, 4) THEN
        /\ current_delay' = 1000
        /\ AppReturn("SLOW", <<Msg("slow", <<1000>>)>>)
        /\ UNCHANGED <<led_enabled, led_state, last_blink_time, gpio_led, tempVars>>
    ELSE IF StrNCmpEq(command, CMD_START, 5) THEN
        /\ led_enabled' = TRUE
        /\ AppReturn("START", <<Msg("led_enabled", <<>>)>>)
        /\ UNCHANGED <<current_delay, led_state, last_blink_time, gpio_led, tempVars>>
    ELSE IF StrNCmpEq(command, CMD_STOP, 4) THEN
        stop_command
    ELSE runtime_process_command(command)

(***************************************************************************)
(* temperature_enhanced.c                                                  *)
(***************************************************************************)
Min(a, b) == IF a < b THEN a ELSE b

\* the last TEMP_HISTORY_SIZE elements of a sequence
LastN(q) ==
    IF Len(q) <= TEMP_HISTORY_SIZE THEN q
    ELSE SubSeq(q, Len(q) - TEMP_HISTORY_SIZE + 1, Len(q))

\* temperature_sum / reading_count in float arithmetic, as <<finite, degrees>>:
\* a division by 0 gives an infinity or a NaN, not a trap
Mean(sum, count) ==
    IF count = 0 THEN <<FALSE, 0>> ELSE <<TRUE, sum \div count>>

\* the slot display_temperature_stats reads as the current temperature
current_idx == (history_index - 1 + TEMP_HISTORY_SIZE) % TEMP_HISTORY_SIZE

\* variant: the statistics are printed without the test reading_count == 0
display_temperature_stats_unguarded ==
    <<Msg("stats",
          <<reading_count,
            temp_history[current_idx],
            Mean(temperature_sum, reading_count), max_temp, min_temp,
            report_interval_ms, B(temp_monitoring_enabled)>>)>>

\* display_temperature_stats
display_temperature_stats ==
    IF reading_count = 0 THEN <<Msg("no_readings", <<>>)>>
    ELSE <<Msg("stats",
               <<reading_count,
                 temp_history[current_idx],
                 Mean(temperature_sum, reading_count), max_temp, min_temp,
                 report_interval_ms, B(temp_monitoring_enabled)>>)>>

\* variant: the listing starts at the newest entry and walks backwards
history_idx_newest_first(i) ==
    (history_index - 1 - i + TEMP_HISTORY_SIZE) % TEMP_HISTORY_SIZE

\* int idx = (history_index - TEMP_HISTORY_SIZE + i + TEMP_HISTORY_SIZE) % N
history_idx(i) ==
    (history_index - TEMP_HISTORY_SIZE + i + TEMP_HISTORY_SIZE) % TEMP_HISTORY_SIZE

\* display_temperature_history: the entries printed, in the order printed
\* (i runs from 0, an entry is printed while reading_count > i)
display_temperature_history ==
    <<Msg("history",
          [k \in 1..Min(reading_count, TEMP_HISTORY_SIZE) |->
              temp_history[history_idx(k - 1)]])>>

\* variant: the argument is taken from the ninth character
interval_command_from_ninth(command) ==
    IF Len(command) > 8 THEN
        LET new_interval == Atoi(StrFrom(command, 8))
        IN  IF Uint32InRange(new_interval, 500, 60000) THEN
                /\ report_interval_ms' = new_interval
                /\ AppReturn("INTERVAL", <<Msg("interval_set", <<new_interval>>)>>)
                /\ UNCHANGED <<blinkVars, temp_monitoring_enabled,
                               last_report_time, statVars>>
            ELSE
                /\ AppReturn("INTERVAL", <<Msg("invalid_interval", <<>>)>>)
                /\ UNCHANGED appVars
    ELSE
        /\ AppReturn("INTERVAL", <<Msg("current_interval", <<report_interval_ms>>),
                                   Msg("interval_usage", <<>>)>>)
        /\ UNCHANGED appVars

\* the INTERVAL branch: strlen(command) > 9, atoi(command + 9)
interval_command(command) ==
    IF Len(command) > 9 THEN
        LET new_interval == Atoi(StrFrom(command, 9))
        IN  IF Uint32InRange(new_interval, 500, 60000) THEN
                /\ report_interval_ms' = new_interval
                /\ AppReturn("INTERVAL", <<Msg("interval_set", <<new_interval>>)>>)
                /\ UNCHANGED <<blinkVars, temp_monitoring_enabled,
                               last_report_time, statVars>>
            ELSE
                /\ AppReturn("INTERVAL", <<Msg("invalid_interval", <<>>)>>)
                /\ UNCHANGED appVars
    ELSE
        /\ AppReturn("INTERVAL", <<Msg("current_interval", <<report_interval_ms>>),
                                   Msg("interval_usage", <<>>)>>)
        /\ UNCHANGED appVars

\* variant: the on-demand reading is entered into the aggregates
temp_command_records ==
    /\ \E current_temp \in Readings :
           /\ AppReturn("TEMP", <<Msg("temperature", <<current_temp>>)>>)
           /\ reading_count' = reading_count + 1
           /\ temperature_sum' = temperature_sum + current_temp
    /\ UNCHANGED <<blinkVars, temp_monitoring_enabled, report_interval_ms,
                   last_report_time, min_temp, max_temp, temp_history,
                   history_index, recorded, recent, written, stale>>

\* the TEMP branch: the sensor is read and the value printed
temp_command ==
    /\ \E current_temp \in Readings :
           AppReturn("TEMP", <<Msg("temperature", <<current_temp>>)>>)
    /\ UNCHANGED appVars

process_temperature_commands(command) ==
    IF StrNCmpEq(command, CMD_TEMP, 4) THEN
        temp_command
    ELSE IF StrNCmpEq(command, CMD_STATS, 5) THEN
        /\ AppReturn("STATS", display_temperature_stats)
        /\ UNCHANGED appVars
    ELSE IF StrNCmpEq(command, CMD_HISTORY, 7) THEN
        /\ AppReturn("HISTORY", display_temperature_history)
        /\ UNCHANGED appVars
    ELSE IF StrNCmpEq(command, CMD_START_TEMP, 10) THEN
        /\ temp_monitoring_enabled' = TRUE
        /\ AppReturn("START_TEMP", <<Msg("monitoring_enabled", <<>>)>>)
        /\ UNCHANGED <<blinkVars, report_interval_ms, last_report_time, statVars>>
    ELSE IF StrNCmpEq(command, CMD_STOP_TEMP, 9) THEN
        /\ temp_monitoring_enabled' = FALSE
        /\ AppReturn("STOP_TEMP", <<Msg("monitoring_disabled", <<>>)>>)
        /\ UNCHANGED <<blinkVars, report_interval_ms, last_report_time, statVars>>
    ELSE IF StrNCmpEq(command, CMD_RESET_STATS, 11) THEN
        /\ reading_count' = 0
        /\ temperature_sum' = 0
        /\ min_temp' = MIN_TEMP_SENTINEL
        /\ max_temp' = MAX_TEMP_SENTINEL
        /\ history_index' = 0
        /\ recorded' = {}
        /\ recent' = <<>>
        /\ written' = {}
        /\ stale' = stale \cup written
        /\ AppReturn("RESET_STATS", <<Msg("stats_reset", <<>>)>>)
        /\ UNCHANGED <<blinkVars, temp_monitoring_enabled, report_interval_ms,
                       last_report_time, temp_history>>
    ELSE IF StrNCmpEq(command, CMD_INTERVAL, 8) THEN
        interval_command(command)
    ELSE IF StrNCmpEq(command, CMD_HELP, 4) THEN
        /\ AppReturn("HELP", <<Msg("help", <<report_interval_ms>>)>>)
        /\ UNCHANGED appVars
    ELSE runtime_process_command(command)

MainLoopPcs == {"tick", "poll", "sleep"}

(***************************************************************************)
(* The line accumulator: enhanced_command_loop and                         *)
(* enhanced_temperature_command_loop, one call per main-loop iteration.    *)
(***************************************************************************)
\* getchar_timeout_us(0) has a byte to return
Readable == wire # <<>> /\ (chan = "uart" \/ usb_on)

\* variant: only the line feed ends a line, a carriage return is stored
IsTerminator_lf_only(ch) == ch = LF

\* c == '\n' || c == '\r'
IsTerminator(ch) == ch = LF \/ ch = CR

Dispatch(command) ==
    IF fw = "blink" THEN process_app_commands(command)
    ELSE process_temperature_commands(command)

\* a step that dispatches nothing and prints nothing
Silent == handler' = "none" /\ cmd' = <<>> /\ out' = <<>>

\* a step outside the accumulator: nothing is read either
NoRead == c' = PICO_ERROR_TIMEOUT /\ segment' = segment

Quiet == Silent /\ NoRead

\* c == PICO_ERROR_TIMEOUT
PollTimeout ==
    /\ pc = "poll"
    /\ ~Readable
    /\ pc' = "sleep"
    /\ Quiet
    /\ UNCHANGED <<ioVars, now, bootVars, appVars>>
    /\ UNCHANGED flash

\* variant: the line is dispatched without the test buffer_pos > 0
PollTerminatorEmpty_dispatch ==
    /\ pc = "poll"
    /\ Readable
    /\ IsTerminator(Head(wire))
    /\ Len(command_buffer) = 0
    /\ wire' = Tail(wire)
    /\ c' = Head(wire)
    /\ segment' = <<>>
    /\ cmd' = command_buffer
    /\ Dispatch(command_buffer)
    /\ command_buffer' = <<>>
    /\ UNCHANGED <<fw, chan, now, scratch4, watchdog_enabled>>
    /\ UNCHANGED flash

\* a terminator while buffer_pos == 0
PollTerminatorEmpty ==
    /\ pc = "poll"
    /\ Readable
    /\ IsTerminator(Head(wire))
    /\ Len(command_buffer) = 0
    /\ wire' = Tail(wire)
    /\ c' = Head(wire)
    /\ segment' = <<>>
    /\ pc' = "sleep"
    /\ Silent
    /\ UNCHANGED <<fw, chan, usb_on, command_buffer, now, bootVars, appVars>>
    /\ UNCHANGED flash

\* variant: buffer_pos is not cleared after the dispatch
PollDispatch_noclear ==
    /\ pc = "poll"
    /\ Readable
    /\ IsTerminator(Head(wire))
    /\ Len(command_buffer) > 0
    /\ wire' = Tail(wire)
    /\ c' = Head(wire)
    /\ segment' = <<>>
    /\ cmd' = command_buffer
    /\ Dispatch(command_buffer)
    /\ command_buffer' = command_buffer
    /\ UNCHANGED <<fw, chan, now, scratch4, watchdog_enabled>>
    /\ UNCHANGED flash

\* a terminator while buffer_pos > 0: the line is dispatched, and buffer_pos is
\* cleared when the dispatcher returns
PollDispatch ==
    /\ pc = "poll"
    /\ Readable
    /\ IsTerminator(Head(wire))
    /\ Len(command_buffer) > 0
    /\ wire' = Tail(wire)
    /\ c' = Head(wire)
    /\ segment' = <<>>
    /\ cmd' = command_buffer
    /\ Dispatch(command_buffer)
    /\ command_buffer' = IF pc' = "sleep" THEN <<>> ELSE command_buffer
    /\ UNCHANGED <<fw, chan, now, scratch4, watchdog_enabled>>
    /\ UNCHANGED flash

\* variant: the bound is sizeof(command_buffer), no room is left for the NUL
PollStore_no_nul_room ==
    /\ pc = "poll"
    /\ Readable
    /\ ~IsTerminator(Head(wire))
    /\ Len(command_buffer) < BUFFER_SIZE
    /\ wire' = Tail(wire)
    /\ c' = Head(wire)
    /\ segment' = Append(segment, Head(wire))
    /\ command_buffer' = Append(command_buffer, Head(wire))
    /\ pc' = "sleep"
    /\ Silent
    /\ UNCHANGED <<fw, chan, usb_on, now, bootVars, appVars>>
    /\ UNCHANGED flash

\* any other byte while buffer_pos < sizeof(command_buffer) - 1
PollStore ==
    /\ pc = "poll"
    /\ Readable
    /\ ~IsTerminator(Head(wire))
    /\ Len(command_buffer) < BUFFER_SIZE - 1
    /\ wire' = Tail(wire)
    /\ c' = Head(wire)
    /\ segment' = Append(segment, Head(wire))
    /\ command_buffer' = Append(command_buffer, Head(wire))
    /\ pc' = "sleep"
    /\ Silent
    /\ UNCHANGED <<fw, chan, usb_on, now, bootVars, appVars>>
    /\ UNCHANGED flash

\* any other byte while the buffer is full: the byte is dropped
PollDrop ==
    /\ pc = "poll"
    /\ Readable
    /\ ~IsTerminator(Head(wire))
    /\ ~(Len(command_buffer) < BUFFER_SIZE - 1)
    /\ wire' = Tail(wire)
    /\ c' = Head(wire)
    /\ segment' = Append(segment, Head(wire))
    /\ pc' = "sleep"
    /\ Silent
    /\ UNCHANGED <<fw, chan, usb_on, command_buffer, now, bootVars, appVars>>
    /\ UNCHANGED flash

(***************************************************************************)
(* Periodic work of the two main loops.                                    *)
(***************************************************************************)
\* variant: the early return for a disabled LED is missing
update_led_blink_ignores_enabled ==
    /\ pc = "tick"
    /\ fw = "blink"
    /\ pc' = "poll"
    /\ handler' = "none" /\ cmd' = <<>>
    /\ NoRead
    /\ IF AbsoluteTimeDiffUs(last_blink_time, now) >= current_delay * 1000
       THEN /\ led_state' = ~led_state
            /\ gpio_led' = B(~led_state)
            /\ last_blink_time' = now
            /\ out' = <<Msg("led", <<B(~led_state), current_delay>>)>>
            /\ UNCHANGED <<led_enabled, current_delay>>
       ELSE /\ out' = <<>>
            /\ UNCHANGED blinkVars
    /\ UNCHANGED <<ioVars, now, bootVars, tempVars>>
    /\ UNCHANGED flash

update_led_blink ==
    /\ pc = "tick"
    /\ fw = "blink"
    /\ pc' = "poll"
    /\ handler' = "none" /\ cmd' = <<>>
    /\ NoRead
    /\ IF led_enabled
          /\ AbsoluteTimeDiffUs(last_blink_time, now) >= current_delay * 1000
       THEN /\ led_state' = ~led_state
            /\ gpio_led' = B(~led_state)
            /\ last_blink_time' = now
            /\ out' = <<Msg("led", <<B(~led_state), current_delay>>)>>
            /\ UNCHANGED <<led_enabled, current_delay>>
       ELSE /\ out' = <<>>
            /\ UNCHANGED blinkVars
    /\ UNCHANGED <<ioVars, now, bootVars, tempVars>>
    /\ UNCHANGED flash

\* variant: the maximum is tested only when the minimum was not updated
update_temperature_monitoring_else_if ==
    /\ pc = "tick"
    /\ fw = "temp"
    /\ pc' = "poll"
    /\ handler' = "none" /\ cmd' = <<>>
    /\ NoRead
    /\ IF temp_monitoring_enabled
          /\ AbsoluteTimeDiffUs(last_report_time, now) >= report_interval_ms * 1000
       THEN \E temperature \in Readings :
            /\ reading_count' = reading_count + 1
            /\ temperature_sum' = temperature_sum + temperature
            /\ min_temp' = IF temperature < min_temp THEN temperature ELSE min_temp
            /\ max_temp' = IF temperature >= min_temp /\ temperature > max_temp
                           THEN temperature ELSE max_temp
            /\ temp_history' = [temp_history EXCEPT ![history_index] = temperature]
            /\ history_index' = (history_index + 1) % TEMP_HISTORY_SIZE
            /\ recorded' = recorded \cup {temperature}
            /\ recent' = LastN(Append(recent, temperature))
            /\ written' = written \cup {history_index}
            /\ stale' = stale \ {history_index}
            /\ out' = <<Msg("report", <<reading_count', temperature,
                                        Mean(temperature_sum', reading_count'),
                                        max_temp', min_temp', report_interval_ms>>)>>
            \* sleep_ms(100) with the LED on, then last_report_time = get_absolute_time()
            /\ \E dt \in {0, 1} :
                   /\ now + dt <= MaxTime
                   /\ now' = now + dt
            /\ last_report_time' = now'
            /\ UNCHANGED <<temp_monitoring_enabled, report_interval_ms>>
       ELSE /\ out' = <<>>
            /\ UNCHANGED <<now, tempVars>>
    /\ UNCHANGED <<ioVars, bootVars, blinkVars>>
    /\ UNCHANGED flash

\* variant: last_report_time is not set after the report
update_temperature_monitoring_stale_timestamp ==
    /\ pc = "tick"
    /\ fw = "temp"
    /\ pc' = "poll"
    /\ handler' = "none" /\ cmd' = <<>>
    /\ NoRead
    /\ IF temp_monitoring_enabled
          /\ AbsoluteTimeDiffUs(last_report_time, now) >= report_interval_ms * 1000
       THEN \E temperature \in Readings :
            /\ reading_count' = reading_count + 1
            /\ temperature_sum' = temperature_sum + temperature
            /\ min_temp' = IF temperature < min_temp THEN temperature ELSE min_temp
            /\ max_temp' = IF temperature > max_temp THEN temperature ELSE max_temp
            /\ temp_history' = [temp_history EXCEPT ![history_index] = temperature]
            /\ history_index' = (history_index + 1) % TEMP_HISTORY_SIZE
            /\ recorded' = recorded \cup {temperature}
            /\ recent' = LastN(Append(recent, temperature))
            /\ written' = written \cup {history_index}
            /\ stale' = stale \ {history_index}
            /\ out' = <<Msg("report", <<reading_count', temperature,
                                        Mean(temperature_sum', reading_count'),
                                        max_temp', min_temp', report_interval_ms>>)>>
            \* sleep_ms(100) with the LED on, then last_report_time = get_absolute_time()
            /\ \E dt \in {0, 1} :
                   /\ now + dt <= MaxTime
                   /\ now' = now + dt
            /\ last_report_time' = last_report_time
            /\ UNCHANGED <<temp_monitoring_enabled, report_interval_ms>>
       ELSE /\ out' = <<>>
            /\ UNCHANGED <<now, tempVars>>
    /\ UNCHANGED <<ioVars, bootVars, blinkVars>>
    /\ UNCHANGED flash

update_temperature_monitoring ==
    /\ pc = "tick"
    /\ fw = "temp"
    /\ pc' = "poll"
    /\ handler' = "none" /\ cmd' = <<>>
    /\ NoRead
    /\ IF temp_monitoring_enabled
          /\ AbsoluteTimeDiffUs(last_report_time, now) >= report_interval_ms * 1000
       THEN \E temperature \in Readings :
            /\ reading_count' = reading_count + 1
            /\ temperature_sum' = temperature_sum + temperature
            /\ min_temp' = IF temperature < min_temp THEN temperature ELSE min_temp
            /\ max_temp' = IF temperature > max_temp THEN temperature ELSE max_temp
            /\ temp_history' = [temp_history EXCEPT ![history_index] = temperature]
            /\ history_index' = (history_index + 1) % TEMP_HISTORY_SIZE
            /\ recorded' = recorded \cup {temperature}
            /\ recent' = LastN(Append(recent, temperature))
            /\ written' = written \cup {history_index}
            /\ stale' = stale \ {history_index}
            /\ out' = <<Msg("report", <<reading_count', temperature,
                                        Mean(temperature_sum', reading_count'),
                                        max_temp', min_temp', report_interval_ms>>)>>
            \* sleep_ms(100) with the LED on, then last_report_time = get_absolute_time()
            /\ \E dt \in {0, 1} :
                   /\ now + dt <= MaxTime
                   /\ now' = now + dt
            /\ last_report_time' = now'
            /\ UNCHANGED <<temp_monitoring_enabled, report_interval_ms>>
       ELSE /\ out' = <<>>
            /\ UNCHANGED <<now, tempVars>>
    /\ UNCHANGED <<ioVars, bootVars, blinkVars>>
    /\ UNCHANGED flash

\* sleep_us at the end of the iteration: the clock may reach the next quantum
Sleep ==
    /\ pc = "sleep"
    /\ pc' = "tick"
    /\ \E dt \in {0, 1} :
           /\ now + dt <= MaxTime
           /\ now' = now + dt
    /\ Quiet
    /\ UNCHANGED <<ioVars, bootVars, appVars>>
    /\ UNCHANGED flash

(***************************************************************************)
(* The irreversible steps of the three reset functions.                    *)
(***************************************************************************)
\* variant: no busy-wait after the ROM call, a return falls back into the loop
RomResetUsbBoot_fallthrough ==
    /\ pc = "enter_bootsel"
    /\ boot' = "Committed"
    /\ pc' \in {"restarted", "sleep"}
    /\ Quiet
    /\ UNCHANGED <<ioVars, now, reset_path, scratch4, watchdog_enabled, appVars>>
    /\ UNCHANGED flash

\* rom_reset_usb_boot(0, 0): the ROM restarts the chip, or the call returns
RomResetUsbBoot ==
    /\ pc = "enter_bootsel"
    /\ boot' = "Committed"
    /\ pc' \in {"restarted", "spin"}
    /\ Quiet
    /\ UNCHANGED <<ioVars, now, reset_path, scratch4, watchdog_enabled, appVars>>
    /\ UNCHANGED flash

\* variant: the watchdog is armed without the marker in scratch[4]
WatchdogArmBootsel_nomarker ==
    /\ pc = "reset_to_bootsel"
    /\ watchdog_enabled' = TRUE
    /\ boot' = "Committed"
    /\ pc' = "spin"
    /\ Quiet
    /\ UNCHANGED <<ioVars, now, reset_path, scratch4, appVars>>
    /\ UNCHANGED flash

\* scratch[4] = magic; watchdog_enable(WATCHDOG_RESET_DELAY_MS, true)
WatchdogArmBootsel ==
    /\ pc = "reset_to_bootsel"
    /\ scratch4' = BOOTSEL_MAGIC
    /\ watchdog_enabled' = TRUE
    /\ boot' = "Committed"
    /\ pc' = "spin"
    /\ Quiet
    /\ UNCHANGED <<ioVars, now, reset_path, appVars>>
    /\ UNCHANGED flash

\* variant: no busy-wait after arming the watchdog, control returns to the loop
WatchdogArmReset_returns ==
    /\ pc = "soft_reset"
    /\ watchdog_enabled' = TRUE
    /\ boot' = "Committed"
    /\ pc' = "sleep"
    /\ Quiet
    /\ UNCHANGED <<ioVars, now, reset_path, scratch4, appVars>>
    /\ UNCHANGED flash

\* watchdog_enable(WATCHDOG_RESET_DELAY_MS, true)
WatchdogArmReset ==
    /\ pc = "soft_reset"
    /\ watchdog_enabled' = TRUE
    /\ boot' = "Committed"
    /\ pc' = "spin"
    /\ Quiet
    /\ UNCHANGED <<ioVars, now, reset_path, scratch4, appVars>>
    /\ UNCHANGED flash

\* variant: the busy-wait clears the enable bit of the watchdog
TightLoop_disables ==
    /\ pc = "spin"
    /\ watchdog_enabled' = FALSE
    /\ Quiet
    /\ UNCHANGED <<ioVars, pc, now, boot, reset_path, scratch4, appVars>>
    /\ UNCHANGED flash

\* while (1) tight_loop_contents();
TightLoop ==
    /\ pc = "spin"
    /\ Quiet
    /\ UNCHANGED <<ioVars, pc, now, bootVars, appVars>>
    /\ UNCHANGED flash

\* the armed watchdog is never fed: the chip restarts
WatchdogFire ==
    /\ pc = "spin"
    /\ watchdog_enabled
    /\ pc' = "restarted"
    /\ Quiet
    /\ UNCHANGED <<ioVars, now, bootVars, appVars>>
    /\ UNCHANGED flash

(***************************************************************************)
(* The host writes one command line to the serial transport.               *)
(***************************************************************************)
HostSend ==
    /\ pc # "restarted"
    /\ wire = <<>>
    /\ \E l \in Lines, t \in Terminators : wire' = l \o t
    /\ Quiet
    /\ UNCHANGED <<fw, chan, usb_on, command_buffer, pc, now, bootVars, appVars>>
    /\ UNCHANGED flash

\* the device after stdio_init_all and the initialisers of the statics
DeviceInit ==
    /\ fw \in {"blink", "temp"}
    /\ chan \in {"usb", "uart"}
    /\ usb_on = TRUE
    /\ wire = <<>>
    /\ command_buffer = <<>>
    /\ c = PICO_ERROR_TIMEOUT
    /\ segment = <<>>
    /\ pc = "tick"
    /\ now = 0
    /\ boot = "Armed"
    /\ reset_path = "none"
    /\ scratch4 = <<0, 0>>
    /\ watchdog_enabled = FALSE
    /\ handler = "none"
    /\ cmd = <<>>
    /\ out = <<>>
    /\ led_enabled = TRUE
    /\ current_delay = BLINK_DELAY_MS
    /\ led_state = FALSE
    /\ last_blink_time = 0
    /\ gpio_led = 0
    /\ temp_monitoring_enabled = TRUE
    /\ report_interval_ms = DEFAULT_REPORT_INTERVAL_MS
    /\ last_report_time = 0
    /\ reading_count = 0
    /\ temperature_sum = 0
    /\ min_temp = MIN_TEMP_SENTINEL
    /\ max_temp = MAX_TEMP_SENTINEL
    /\ temp_history = [i \in 0..(TEMP_HISTORY_SIZE - 1) |-> 0]
    /\ history_index = 0
    /\ recorded = {}
    /\ recent = <<>>
    /\ written = {}
    /\ stale = {}

Init == DeviceInit /\ flash = FlashIdle

Next ==
    \/ HostSend
    \/ update_led_blink
    \/ update_temperature_monitoring
    \/ PollTimeout
    \/ PollTerminatorEmpty
    \/ PollDispatch
    \/ PollStore
    \/ PollDrop
    \/ Sleep
    \/ RomResetUsbBoot
    \/ WatchdogArmBootsel
    \/ WatchdogArmReset
    \/ TightLoop
    \/ WatchdogFire

Spec == Init /\ [][Next]_vars

\* the hardware timer of an armed watchdog fires
WatchdogSpec == Init /\ [][Next]_vars /\ WF_vars(WatchdogFire)

(***************************************************************************)
(* Properties of the bootloader transition controller.                     *)
(***************************************************************************)
ResetLines == { KW_BOOTSEL, KW_RESET_BOOTSEL, KW_RESET }

\* C1: once BOOTSEL, RESET_BOOTSEL or RESET has been dispatched the controller
\* leaves Armed for Quiescing and can only go on to Committed; from then on no
\* step reads a byte from the transport, dispatches a command, prints a
\* response or puts control back into the main loop.
C1_ResetIsTerminal ==
    [][ /\ (cmd' \in ResetLines) => (boot = "Armed" /\ boot' = "Quiescing")
        /\ (boot # "Armed") =>
              /\ boot' \in (IF boot = "Quiescing" THEN {"Quiescing", "Committed"}
                            ELSE {"Committed"})
              /\ pc' \notin MainLoopPcs
              /\ Len(wire') >= Len(wire)
              /\ command_buffer' = command_buffer
              /\ cmd' = <<>> /\ handler' = "none" /\ out' = <<>>
      ]_vars

\* a reset was committed while bytes of a later line wait on the transport
C1_Witness ==
    /\ boot = "Committed"
    /\ reset_path = "BOOTSEL"
    /\ pc = "spin"
    /\ wire # <<>>

\* C2: on each reset path the output is flushed (Quiescing) strictly before
\* the irreversible hardware action: Committed is entered only from Quiescing,
\* Quiescing only from Armed, and the watchdog is armed only by the step that
\* leaves Quiescing.
C2_FlushBeforeCommit ==
    [][ /\ (boot' = "Committed" /\ boot # "Committed") => boot = "Quiescing"
        /\ (boot' = "Quiescing" /\ boot # "Quiescing") => boot = "Armed"
        /\ (watchdog_enabled' /\ ~watchdog_enabled) =>
               (boot = "Quiescing" /\ boot' = "Committed")
      ]_vars

\* the watchdog was armed after the flush of the plain RESET path
C2_Witness ==
    /\ boot = "Committed"
    /\ reset_path = "RESET"
    /\ watchdog_enabled

\* C3 as stated: after the reset primitive was issued and as long as the chip
\* has not restarted, the main loop is running.
C3_ContinuesRunning ==
    (boot = "Committed" /\ pc # "restarted") => pc \in MainLoopPcs

\* C3 as amended: after the reset primitive was issued, whether or not it
\* takes effect, the main loop does not resume: control stays in the busy-wait
\* (or the chip restarts), no byte is read, nothing is dispatched or printed
\* and no LED or telemetry state changes.
C3_StaysInBusyWait ==
    [][ (boot = "Committed") =>
            /\ pc' \in {"spin", "restarted"}
            /\ boot' = "Committed"
            /\ Len(wire') >= Len(wire)
            /\ cmd' = <<>> /\ out' = <<>>
            /\ appVars' = appVars
            /\ now' = now
      ]_vars

\* the watchdog was armed, has not fired, and the device sits in the busy-wait
\* with input pending
C3_Witness ==
    /\ boot = "Committed"
    /\ watchdog_enabled
    /\ pc = "spin"
    /\ wire # <<>>

\* C4: when rom_reset_usb_boot returns, control is in the terminal busy-wait,
\* and on the BOOTSEL path no step leaves it: not to the command loop, not to
\* the LED/telemetry updates, not to Armed.
C4_BootselBusyWaitForever ==
    [][ /\ (pc = "enter_bootsel" /\ pc' # pc) => pc' \in {"restarted", "spin"}
        /\ (pc = "spin" /\ reset_path = "BOOTSEL") =>
              /\ pc' = "spin"
              /\ boot' = "Committed"
              /\ UNCHANGED <<command_buffer, appVars, bootVars>>
      ]_vars

\* the ROM call returned
C4_Witness ==
    /\ pc = "spin"
    /\ reset_path = "BOOTSEL"
    /\ ~watchdog_enabled

\* C5: the bootloader marker is in scratch[4] only on the RESET_BOOTSEL path;
\* a RESET_BOOTSEL commit has the marker written when the watchdog is armed,
\* and a plain RESET (or BOOTSEL) commits with the marker not set.
C5_MarkerOnlyOnResetBootsel ==
    /\ scratch4 = BOOTSEL_MAGIC => (reset_path = "RESET_BOOTSEL" /\ boot = "Committed")
    /\ (reset_path = "RESET_BOOTSEL" /\ (boot = "Committed" \/ watchdog_enabled))
           => (scratch4 = BOOTSEL_MAGIC /\ watchdog_enabled)
    /\ (reset_path = "RESET" /\ boot = "Committed")
           => (scratch4 # BOOTSEL_MAGIC /\ watchdog_enabled)

\* the chip restarted from the watchdog with the marker set
C5_Witness ==
    /\ pc = "restarted"
    /\ reset_path = "RESET_BOOTSEL"
    /\ scratch4 = BOOTSEL_MAGIC

(***************************************************************************)
(* Properties of the command dispatchers.                                  *)
(***************************************************************************)
\* C6 as stated: dispatching INFO or PREPARE leaves the controller Armed and
\* returns to the main loop, and afterwards the loop still takes in the
\* command lines sent over the serial transport: while Armed, every poll with
\* a byte waiting on the transport reads that byte.
C6_InfoPrepareKeepListening ==
    [][ /\ (handler' \in {"INFO", "PREPARE"}) => (boot' = "Armed" /\ pc' = "sleep")
        /\ (pc = "poll" /\ boot = "Armed" /\ wire # <<>>) => wire' = Tail(wire)
      ]_vars

\* the application keywords named by C7, each as a complete line
AppCommandLines ==
    { CMD_START, CMD_STOP, CMD_SPEED_FAST, CMD_SPEED_SLOW, CMD_STATUS,
      CMD_TEMP, CMD_STATS, CMD_HISTORY, L_INTERVAL_1000,
      CMD_START_TEMP, CMD_STOP_TEMP, CMD_RESET_STATS }

\* C7 as stated: in either firmware, dispatching any application command
\* returns to the main loop with the bootloader controller still Armed.
C7_AppCommandsNeverReset ==
    [][ (cmd' \in AppCommandLines) => (pc' = "sleep" /\ boot' = "Armed") ]_vars

\* the handler that belongs to each keyword of the command table
OwnHandler(l) ==
    CASE l = CMD_HELP         -> "HELP"
      [] l = CMD_STATUS       -> "STATUS"
      [] l = CMD_SPEED_FAST   -> "FAST"
      [] l = CMD_SPEED_SLOW   -> "SLOW"
      [] l = CMD_START        -> "START"
      [] l = CMD_STOP         -> "STOP"
      [] l = CMD_TEMP         -> "TEMP"
      [] l = CMD_STATS        -> "STATS"
      [] l = CMD_HISTORY      -> "HISTORY"
      [] l = L_INTERVAL_1000  -> "INTERVAL"
      [] l = CMD_START_TEMP   -> "START_TEMP"
      [] l = CMD_STOP_TEMP    -> "STOP_TEMP"
      [] l = CMD_RESET_STATS  -> "RESET_STATS"
      [] l = KW_BOOTSEL       -> "BOOTSEL"
      [] l = KW_RESET_BOOTSEL -> "RESET_BOOTSEL"
      [] l = KW_RESET         -> "RESET"
      [] l = KW_INFO          -> "INFO"
      [] l = KW_PREPARE       -> "PREPARE"

\* C8 as stated: every keyword of the command table, sent as a complete line,
\* runs its own handler, never another keyword's and never the unknown-command
\* report.
C8_EveryTableKeywordRecognized ==
    (cmd \in TableLines) => handler = OwnHandler(cmd)

IsPrefix(k, l) == Len(k) <= Len(l) /\ SubSeq(l, 1, Len(k)) = k

\* the keywords in the order the dispatchers test them, with their handlers
BlinkTable ==
    << <<CMD_HELP, "HELP">>, <<CMD_STATUS, "STATUS">>, <<CMD_SPEED_FAST, "FAST">>,
       <<CMD_SPEED_SLOW, "SLOW">>, <<CMD_START, "START">>, <<CMD_STOP, "STOP">> >>

TempTable ==
    << <<CMD_TEMP, "TEMP">>, <<CMD_STATS, "STATS">>, <<CMD_HISTORY, "HISTORY">>,
       <<CMD_START_TEMP, "START_TEMP">>, <<CMD_STOP_TEMP, "STOP_TEMP">>,
       <<CMD_RESET_STATS, "RESET_STATS">>, <<CMD_INTERVAL, "INTERVAL">>,
       <<CMD_HELP, "HELP">> >>

RuntimeTable ==
    << <<KW_BOOTSEL, "BOOTSEL">>, <<KW_RESET_BOOTSEL, "RESET_BOOTSEL">>,
       <<KW_RESET, "RESET">>, <<KW_INFO, "INFO">>, <<KW_PREPARE, "PREPARE">> >>

AppTable(f) == IF f = "blink" THEN BlinkTable ELSE TempTable

\* positions of the table entries whose keyword is a prefix of the line
Matches(t, l) == { i \in 1..Len(t) : IsPrefix(t[i][1], l) }

\* handler of the first entry in priority order that matches, "unknown" if none
FirstMatch(f, l) ==
    LET t == AppTable(f) \o RuntimeTable
        m == Matches(t, l)
    IN  IF m = {} THEN "unknown"
        ELSE t[CHOOSE i \in m : \A j \in m : i <= j][2]

UnknownReport(l) == <<Msg("unknown_command", l), Msg("available_commands", <<>>)>>

\* C9: the handler run for a line is that of the first keyword, application
\* keywords before runtime keywords, that is a case-sensitive prefix of the
\* line; a runtime handler runs only when no application keyword matches; a
\* line that matches no keyword gets the unknown-command report with the list
\* of available commands.
C9_PriorityPrefixDispatch ==
    (cmd # <<>>) =>
        /\ handler = FirstMatch(fw, cmd)
        /\ (Matches(AppTable(fw), cmd) # {}) =>
               handler \in { AppTable(fw)[i][2] : i \in 1..Len(AppTable(fw)) }
        /\ (Matches(AppTable(fw) \o RuntimeTable, cmd) = {}) =>
               out = UnknownReport(cmd)

\* RESET_BOOTSEL, which has RESET as a prefix and shares "RESET_" with the
\* application keyword RESET_STATS, reached its own handler
C9_Witness ==
    /\ fw = "temp"
    /\ cmd = KW_RESET_BOOTSEL
    /\ handler = "RESET_BOOTSEL"

\* C10: a line that matches no keyword produces the unknown-command report and
\* changes no application, telemetry or bootloader state; the accumulator is
\* cleared and the main loop goes on.
C10_UnknownCommandNoEffect ==
    [][ (cmd' # <<>> /\ FirstMatch(fw, cmd') = "unknown") =>
            /\ out' = UnknownReport(cmd')
            /\ appVars' = appVars
            /\ bootVars' = bootVars
            /\ usb_on' = usb_on
            /\ boot' = "Armed"
            /\ command_buffer' = <<>>
            /\ pc' = "sleep"
      ]_vars

\* an unknown line was reported after telemetry had been recorded
C10_Witness ==
    /\ cmd = L_XYZ
    /\ handler = "unknown"
    /\ reading_count > 0
    /\ pc = "sleep"

(***************************************************************************)
(* Properties of the line accumulator.                                     *)
(***************************************************************************)
\* the first sizeof(command_buffer) - 1 bytes of a segment
Truncated(seg) == SubSeq(seg, 1, Min(Len(seg), BUFFER_SIZE - 1))

\* C11: the bytes on the transport are read one at a time and in order, and a
\* line is dispatched in exactly the steps that read a terminator ('\n' or
\* '\r') ending a non-empty segment; so the number of lines dispatched is the
\* number of non-empty terminated segments, and a trailing segment without a
\* terminator dispatches nothing.
C11_OneDispatchPerNonEmptySegment ==
    [][ /\ (cmd' # <<>>) <=> (c' \in {LF, CR} /\ segment # <<>>)
        /\ (c' # PICO_ERROR_TIMEOUT) <=> (wire # <<>> /\ wire' = Tail(wire))
        /\ (c' # PICO_ERROR_TIMEOUT) => c' = Head(wire)
      ]_vars

\* a line ended by "\r\n" was dispatched at the '\r'; the '\n' is still unread
C11_Witness ==
    /\ c = CR
    /\ cmd = CMD_STATS
    /\ wire = <<LF>>
    /\ pc = "sleep"

\* C12: a terminator read while the segment is empty dispatches nothing,
\* prints nothing and changes no state of the accumulator, the application,
\* the telemetry or the bootloader controller; consecutive terminators are
\* therefore the same as one.
C12_TerminatorOnEmptyIsNoOp ==
    [][ (c' \in {LF, CR} /\ segment = <<>>) =>
            /\ cmd' = <<>>
            /\ handler' = "none"
            /\ out' = <<>>
            /\ command_buffer' = command_buffer
            /\ appVars' = appVars
            /\ bootVars' = bootVars
            /\ usb_on' = usb_on
            /\ pc' = "sleep"
      ]_vars

\* the '\n' of a "\r\n" pair was read after telemetry had been recorded
C12_Witness ==
    /\ c = LF
    /\ cmd = <<>>
    /\ command_buffer = <<>>
    /\ reading_count > 0
    /\ pc = "sleep"

\* C13: once a segment holds sizeof(command_buffer) - 1 = 63 bytes, further
\* bytes are dropped without any output or state change, and the terminator
\* dispatches one line made of the first 63 bytes.
C13_LongSegmentTruncated ==
    [][ /\ (c' \notin {PICO_ERROR_TIMEOUT, LF, CR} /\ Len(segment) >= 63) =>
               /\ command_buffer' = command_buffer
               /\ cmd' = <<>>
               /\ out' = <<>>
               /\ appVars' = appVars
               /\ bootVars' = bootVars
               /\ pc' = "sleep"
        /\ (c' \in {LF, CR} /\ Len(segment) > 63) =>
               /\ cmd' = SubSeq(segment, 1, 63)
               /\ handler' # "none"
      ]_vars

\* the 65-byte line was dispatched as its first 63 bytes
C13_Witness ==
    /\ cmd = SubSeq(L_LONG, 1, 63)
    /\ Len(L_LONG) > 63
    /\ handler = "unknown"
    /\ c \in {LF, CR}

\* C14: the line handed to the dispatcher is made only of the bytes of the
\* segment just ended; when the dispatcher returns the accumulator is empty,
\* and at every point of the main loop it holds exactly the bytes of the
\* current segment, so no line is dispatched a second time.
C14_DispatchedOnceThenEmpty ==
    [][ /\ (cmd' # <<>>) =>
               /\ cmd' = Truncated(segment)
               /\ (pc' = "sleep") => command_buffer' = <<>>
        /\ (pc' \in MainLoopPcs) => command_buffer' = Truncated(segment')
      ]_vars

\* a dispatcher returned (INFO) and left the accumulator empty
C14_Witness ==
    /\ cmd = KW_INFO
    /\ handler = "INFO"
    /\ command_buffer = <<>>
    /\ pc = "sleep"

(***************************************************************************)
(* Properties of the report interval of temperature_enhanced.              *)
(***************************************************************************)
\* the text shows the report interval ms
ShowsInterval(text, ms) ==
    \E i \in 1..Len(text) : text[i].msg = "stats" /\ text[i].args[6] = ms

\* C15: after "INTERVAL 1000" is dispatched the interval is 1000 ms, and while
\* it is, every STATUS or STATS command produces a report that shows the
\* interval 1000.
C15_StatusAndStatsShowInterval ==
    (fw = "temp") =>
        /\ (cmd = L_INTERVAL_1000) => report_interval_ms = 1000
        /\ (report_interval_ms = 1000 /\ cmd \in {CMD_STATUS, CMD_STATS}) =>
               ShowsInterval(out, 1000)

\* INTERVAL lines with a numeric argument outside 500..60000
OutOfRangeIntervalLines == { L_INTERVAL_99999, L_INTERVAL_60001, L_INTERVAL_499 }

\* C16: an INTERVAL command with a numeric argument outside 500..60000 prints
\* the invalid-interval error and leaves report_interval_ms and every other
\* application, telemetry and bootloader state variable unchanged.
C16_OutOfRangeIntervalRejected ==
    [][ (fw = "temp" /\ cmd' \in OutOfRangeIntervalLines) =>
            /\ handler' = "INTERVAL"
            /\ out' = <<Msg("invalid_interval", <<>>)>>
            /\ report_interval_ms' = report_interval_ms
            /\ appVars' = appVars
            /\ bootVars' = bootVars
            /\ usb_on' = usb_on
            /\ pc' = "sleep"
      ]_vars

\* "INTERVAL 99999" was rejected after the interval had been set to 1000
C16_Witness ==
    /\ fw = "temp"
    /\ cmd = L_INTERVAL_99999
    /\ out = <<Msg("invalid_interval", <<>>)>>
    /\ report_interval_ms = 1000

\* INTERVAL lines whose remainder is not a well-formed unsigned integer:
\* letters, a negative number, digits followed by another character
MalformedIntervalLines == { L_INTERVAL_abc, L_INTERVAL_neg, L_INTERVAL_1000x }

\* C17: an INTERVAL command whose remainder is not a well-formed unsigned
\* integer prints an explicit error and changes no state.
C17_MalformedIntervalRejected ==
    [][ (fw = "temp" /\ cmd' \in MalformedIntervalLines) =>
            /\ out' = <<Msg("invalid_interval", <<>>)>>
            /\ appVars' = appVars
            /\ bootVars' = bootVars
      ]_vars

\* C18: the report interval is always within 500..60000 ms.
C18_IntervalWithinBounds ==
    500 <= report_interval_ms /\ report_interval_ms <= 60000

\* the interval sits on the lower bound and "INTERVAL 60001" was just refused
C18_Witness ==
    /\ fw = "temp"
    /\ report_interval_ms = 500
    /\ cmd = L_INTERVAL_60001
    /\ handler = "INTERVAL"

(***************************************************************************)
(* Properties of the telemetry statistics of temperature_enhanced.         *)
(***************************************************************************)
\* C19: a step that records a reading r in statistics with count 0 leaves
\* min_temp = max_temp = r and count 1, for each reading the sensor can return;
\* with count > 0, a reading below min_temp replaces min_temp only and a
\* reading above max_temp replaces max_temp only.
C19_RecordUpdatesMinMax ==
    [][ (reading_count' = reading_count + 1) =>
            LET r == temp_history'[history_index]
            IN  /\ (reading_count = 0) =>
                       (min_temp' = r /\ max_temp' = r /\ reading_count' = 1)
                /\ (reading_count > 0 /\ r < min_temp) =>
                       (min_temp' = r /\ max_temp' = max_temp)
                /\ (reading_count > 0 /\ r > max_temp) =>
                       (max_temp' = r /\ min_temp' = min_temp)
      ]_vars

\* C20: once a reading has been recorded, every reading recorded since start
\* or since the latest RESET_STATS lies between min_temp and max_temp.
C20_ReadingsWithinMinMax ==
    (reading_count > 0) =>
        /\ recorded # {}
        /\ \A r \in recorded : min_temp <= r /\ r <= max_temp

\* two different readings have been recorded, the larger one first
C20_Witness ==
    /\ reading_count = 2
    /\ Cardinality(recorded) = 2
    /\ temp_history[0] > temp_history[1]
    /\ min_temp < max_temp

(***************************************************************************)
(* The telemetry aggregator of temperature_enhanced on its own: the timed  *)
(* recording and the commands that read or reset the statistics, over runs *)
(* long enough for the history ring to wrap.  The line accumulator is left *)
(* out: a command is a complete line handed to the dispatcher.             *)
(***************************************************************************)
TelemetryLines == { CMD_HISTORY, CMD_STATS, CMD_RESET_STATS }

\* the clock value at which the next report is due
DueTime == last_report_time + report_interval_ms \div Quantum(fw)

\* variant: the write index is not reduced modulo TEMP_HISTORY_SIZE
TelemetryRecord_no_wrap ==
    /\ pc \in MainLoopPcs
    /\ temp_monitoring_enabled
    /\ DueTime <= MaxRecordings * (DEFAULT_REPORT_INTERVAL_MS \div Quantum(fw))
    /\ \E temperature \in Readings :
           /\ reading_count' = reading_count + 1
           /\ temperature_sum' = temperature_sum + temperature
           /\ min_temp' = IF temperature < min_temp THEN temperature ELSE min_temp
           /\ max_temp' = IF temperature > max_temp THEN temperature ELSE max_temp
           /\ temp_history' = [temp_history EXCEPT ![history_index % TEMP_HISTORY_SIZE] = temperature]
           /\ history_index' = history_index + 1
           /\ recorded' = recorded \cup {temperature}
           /\ recent' = LastN(Append(recent, temperature))
           /\ written' = written \cup {history_index % TEMP_HISTORY_SIZE}
           /\ stale' = stale \ {history_index % TEMP_HISTORY_SIZE}
           /\ out' = <<Msg("report", <<reading_count', temperature,
                                       Mean(temperature_sum', reading_count'),
                                       max_temp', min_temp', report_interval_ms>>)>>
    /\ now' = DueTime
    /\ last_report_time' = now'
    /\ pc' = "poll"
    /\ handler' = "none" /\ cmd' = <<>>
    /\ NoRead
    /\ UNCHANGED <<ioVars, bootVars, blinkVars, temp_monitoring_enabled,
                   report_interval_ms>>
    /\ UNCHANGED flash

\* update_temperature_monitoring in an iteration that finds the report due
\* variant: the reading is not added to temperature_sum
TelemetryRecord_no_sum ==
    /\ pc \in MainLoopPcs
    /\ temp_monitoring_enabled
    /\ DueTime <= MaxRecordings * (DEFAULT_REPORT_INTERVAL_MS \div Quantum(fw))
    /\ \E temperature \in Readings :
           /\ reading_count' = reading_count + 1
           /\ temperature_sum' = temperature_sum
           /\ min_temp' = IF temperature < min_temp THEN temperature ELSE min_temp
           /\ max_temp' = IF temperature > max_temp THEN temperature ELSE max_temp
           /\ temp_history' = [temp_history EXCEPT ![history_index] = temperature]
           /\ history_index' = (history_index + 1) % TEMP_HISTORY_SIZE
           /\ recorded' = recorded \cup {temperature}
           /\ recent' = LastN(Append(recent, temperature))
           /\ written' = written \cup {history_index}
           /\ stale' = stale \ {history_index}
           /\ out' = <<Msg("report", <<reading_count', temperature,
                                       Mean(temperature_sum', reading_count'),
                                       max_temp', min_temp', report_interval_ms>>)>>
    /\ now' = DueTime
    /\ last_report_time' = now'
    /\ pc' = "poll"
    /\ handler' = "none" /\ cmd' = <<>>
    /\ NoRead
    /\ UNCHANGED <<ioVars, bootVars, blinkVars, temp_monitoring_enabled,
                   report_interval_ms>>
    /\ UNCHANGED flash

TelemetryRecord ==
    /\ pc \in MainLoopPcs
    /\ temp_monitoring_enabled
    /\ DueTime <= MaxRecordings * (DEFAULT_REPORT_INTERVAL_MS \div Quantum(fw))
    /\ \E temperature \in Readings :
           /\ reading_count' = reading_count + 1
           /\ temperature_sum' = temperature_sum + temperature
           /\ min_temp' = IF temperature < min_temp THEN temperature ELSE min_temp
           /\ max_temp' = IF temperature > max_temp THEN temperature ELSE max_temp
           /\ temp_history' = [temp_history EXCEPT ![history_index] = temperature]
           /\ history_index' = (history_index + 1) % TEMP_HISTORY_SIZE
           /\ recorded' = recorded \cup {temperature}
           /\ recent' = LastN(Append(recent, temperature))
           /\ written' = written \cup {history_index}
           /\ stale' = stale \ {history_index}
           /\ out' = <<Msg("report", <<reading_count', temperature,
                                       Mean(temperature_sum', reading_count'),
                                       max_temp', min_temp', report_interval_ms>>)>>
    /\ now' = DueTime
    /\ last_report_time' = now'
    /\ pc' = "poll"
    /\ handler' = "none" /\ cmd' = <<>>
    /\ NoRead
    /\ UNCHANGED <<ioVars, bootVars, blinkVars, temp_monitoring_enabled,
                   report_interval_ms>>
    /\ UNCHANGED flash

\* enhanced_temperature_command_loop in an iteration that completes a line
TelemetryCommand ==
    /\ pc \in MainLoopPcs
    /\ \E l \in TelemetryLines :
           /\ cmd' = l
           /\ process_temperature_commands(l)
    /\ c' = LF
    /\ segment' = <<>>
    /\ UNCHANGED <<fw, chan, wire, command_buffer, now, scratch4, watchdog_enabled>>
    /\ UNCHANGED flash

TelemetryInit == Init /\ fw = "temp" /\ chan = "uart"

TelemetryNext == TelemetryRecord \/ TelemetryCommand

TelemetrySpec == TelemetryInit /\ [][TelemetryNext]_vars

\* the messages that print the mean temperature_sum / reading_count
ShowsMean(m) == m.msg \in {"stats", "report"}

\* C21: RESET_STATS leaves count 0, sum 0 and min/max at their sentinels; the
\* mean is never computed with count 0: STATS with count 0 prints only the
\* no-readings message, and every output that shows a mean (STATS, the timed
\* report) is produced with a positive count and a finite mean.
C21_ResetThenGuardedMean ==
    [][ /\ (fw = "temp" /\ handler' = "RESET_STATS") =>
               /\ reading_count' = 0
               /\ temperature_sum' = 0
               /\ min_temp' = MIN_TEMP_SENTINEL
               /\ max_temp' = MAX_TEMP_SENTINEL
        /\ (fw = "temp" /\ handler' = "STATS" /\ reading_count = 0) =>
               out' = <<Msg("no_readings", <<>>)>>
        /\ \A i \in 1..Len(out') :
               ShowsMean(out'[i]) => (reading_count' > 0 /\ out'[i].args[3][1])
      ]_vars

\* STATS was answered with the no-readings message after a reset that had
\* discarded recorded readings
C21_Witness ==
    /\ handler = "STATS"
    /\ out = <<Msg("no_readings", <<>>)>>
    /\ reading_count = 0
    /\ stale # {}

(***************************************************************************)
(* Properties of the history ring.                                         *)
(***************************************************************************)
\* C22: after more than N = TEMP_HISTORY_SIZE recordings without a reset,
\* HISTORY lists exactly N values: the N most recent readings, oldest first.
C22_FullHistoryOldestFirst ==
    (handler = "HISTORY" /\ reading_count > TEMP_HISTORY_SIZE) =>
        /\ out = <<Msg("history", recent)>>
        /\ Len(out[1].args) = TEMP_HISTORY_SIZE

\* HISTORY after 11 recordings, the oldest and the newest listed value differ
C22_Witness ==
    /\ handler = "HISTORY"
    /\ reading_count = TEMP_HISTORY_SIZE + 1
    /\ history_index = 1
    /\ out[1].args[1] # out[1].args[TEMP_HISTORY_SIZE]

\* C23: whatever the number c of readings recorded since start or since the
\* latest RESET_STATS, HISTORY lists min(c, N) entries, and they are the
\* min(c, N) most recent readings, oldest first.
C23_HistoryListsRecentReadings ==
    (handler = "HISTORY") =>
        /\ Len(out[1].args) = Min(reading_count, TEMP_HISTORY_SIZE)
        /\ out = <<Msg("history", recent)>>

\* C24: once a RESET_STATS has left readings behind in the ring, HISTORY and
\* STATS read only slots written since that reset.
C24_NoStaleSlotRead ==
    (stale # {}) =>
        /\ (handler = "HISTORY") =>
               \A i \in 0..(Min(reading_count, TEMP_HISTORY_SIZE) - 1) :
                   history_idx(i) \in written
        /\ (handler = "STATS" /\ reading_count > 0) => current_idx \in written

\* C25: history_index is reading_count mod N, and the readings recorded since
\* start or since the latest RESET_STATS sit in the slots k mod N, k counted
\* from 0 in the order of recording.
C25_WriteIndexIsCountModN ==
    /\ history_index = reading_count % TEMP_HISTORY_SIZE
    /\ \A j \in 1..Len(recent) :
           temp_history[(reading_count - Len(recent) + j - 1) % TEMP_HISTORY_SIZE]
               = recent[j]

\* the write index has wrapped: 11 readings recorded, the next goes to slot 1
C25_Witness ==
    /\ reading_count = TEMP_HISTORY_SIZE + 1
    /\ history_index = 1
    /\ Len(recent) = TEMP_HISTORY_SIZE
    /\ temp_history[0] = recent[TEMP_HISTORY_SIZE]

(***************************************************************************)
(* Properties of blink_led_enhanced.                                       *)
(***************************************************************************)
\* C26: STATUS prints a status report with the LED state, the enabled flag
\* and the blink delay as they are, and changes nothing: the LED variables,
\* the bootloader state and the transport are as before, and the accumulator
\* is empty again.
C26_StatusReportsAndKeepsState ==
    [][ (fw = "blink" /\ cmd' = CMD_STATUS) =>
            /\ handler' = "STATUS"
            /\ out' = <<Msg("status", <<B(led_state), B(led_enabled), current_delay>>)>>
            /\ <<led_enabled, current_delay, led_state, last_blink_time>>'
                   = <<led_enabled, current_delay, led_state, last_blink_time>>
            /\ appVars' = appVars
            /\ bootVars' = bootVars
            /\ usb_on' = usb_on
            /\ command_buffer' = <<>>
            /\ pc' = "sleep"
      ]_vars

\* STATUS reported a stopped LED and a delay other than the initial one
C26_Witness ==
    /\ fw = "blink"
    /\ cmd = CMD_STATUS
    /\ out = <<Msg("status", <<0, 0, 125>>)>>
    /\ ~led_enabled
    /\ current_delay = 125

\* C27: a call of update_led_blink flips the LED exactly when led_enabled holds
\* and now - last_blink_time >= current_delay, and then sets last_blink_time
\* to the current time; otherwise it leaves led_state and last_blink_time
\* unchanged.
C27_BlinkOnlyWhenEnabledAndDue ==
    [][ (fw = "blink" /\ pc = "tick" /\ pc' = "poll") =>
            IF led_enabled /\ (now - last_blink_time) * Quantum("blink") >= current_delay
            THEN /\ led_state' = ~led_state
                 /\ gpio_led' = B(led_state')
                 /\ last_blink_time' = now
            ELSE /\ led_state' = led_state
                 /\ gpio_led' = gpio_led
                 /\ last_blink_time' = last_blink_time
      ]_vars

\* the LED was switched off again by the second flip, one FAST delay after
\* the first
C27_Witness ==
    /\ fw = "blink"
    /\ pc = "poll"
    /\ out = <<Msg("led", <<0, 125>>)>>
    /\ led_state = FALSE
    /\ last_blink_time = now
    /\ now > 0

(***************************************************************************)
(* Properties of the main loop.                                            *)
(***************************************************************************)
\* a timed report is due at the start of this iteration
ReportDue ==
    /\ fw = "temp"
    /\ temp_monitoring_enabled
    /\ (now - last_report_time) * Quantum("temp") >= report_interval_ms

\* C28: input and periodic work do not starve each other.  In each iteration
\* of the main loop the poll consumes one byte if any is pending, and no
\* step consumes more than one; the time check is made in each iteration and
\* a due report is emitted then, whatever is pending on the transport; the
\* loop goes round from the tick to the poll to the delay.
C28_NoStarvation ==
    [][ /\ (pc = "poll" /\ pc' # pc /\ wire # <<>>) => wire' = Tail(wire)
        /\ (wire # <<>> /\ wire' # wire) => (pc = "poll" /\ wire' = Tail(wire))
        /\ (pc = "tick" /\ pc' # pc /\ ReportDue) =>
               (reading_count' = reading_count + 1 /\ out' # <<>>)
        /\ (pc = "tick" /\ pc' # pc) => pc' = "poll"
        /\ (pc = "sleep" /\ pc' # pc) => pc' = "tick"
      ]_vars

\* C29: no step of a main-loop iteration waits or sleeps: the clock does not
\* advance during the periodic work, the transport read or the dispatch of a
\* command (only in the delay that ends the iteration, and in the terminal
\* spin-wait of the bootloader paths).
C29_NoStepBlocks ==
    [][ (pc \in {"tick", "poll"}) => now' = now ]_vars

(***************************************************************************)
(* The width of the reading count.  reading_count is a uint32_t and the    *)
(* recording step applies ++ to it.  In LifetimeSpec the variable holds    *)
(* the 32-bit value as its two 16-bit halves <<high, low>>, and the        *)
(* specification starts from counts on both sides of each carry and of     *)
(* the top of the range, then applies the increment and the reset.         *)
(***************************************************************************)
Half == 65536

\* reading_count++ on a uint32_t: arithmetic modulo 2^32
Uint32Inc(v) ==
    IF v[2] + 1 < Half THEN <<v[1], v[2] + 1>>
                       ELSE <<(v[1] + 1) % Half, 0>>

\* counts that lie within MaxNearWrap of a carry out of the low half
LifetimeCounts ==
    { <<hi, lo>> : hi \in {0, 1, 2, Half - 2, Half - 1},
                   lo \in (0..MaxNearWrap) \cup ((Half - 1 - MaxNearWrap)..(Half - 1)) }

LifetimeInit ==
    /\ fw = "temp"
    /\ chan = "uart"
    /\ usb_on = TRUE
    /\ wire = <<>>
    /\ command_buffer = <<>>
    /\ c = PICO_ERROR_TIMEOUT
    /\ segment = <<>>
    /\ pc = "tick"
    /\ now = 0
    /\ boot = "Armed"
    /\ reset_path = "none"
    /\ scratch4 = <<0, 0>>
    /\ watchdog_enabled = FALSE
    /\ handler = "none"
    /\ cmd = <<>>
    /\ out = <<>>
    /\ led_enabled = TRUE
    /\ current_delay = BLINK_DELAY_MS
    /\ led_state = FALSE
    /\ last_blink_time = 0
    /\ gpio_led = 0
    /\ temp_monitoring_enabled = TRUE
    /\ report_interval_ms = DEFAULT_REPORT_INTERVAL_MS
    /\ last_report_time = 0
    /\ reading_count \in LifetimeCounts
    /\ temperature_sum = 0
    /\ min_temp = MIN_TEMP_SENTINEL
    /\ max_temp = MAX_TEMP_SENTINEL
    /\ temp_history = [i \in 0..(TEMP_HISTORY_SIZE - 1) |-> 0]
    /\ history_index = 0
    /\ recorded = {}
    /\ recent = <<>>
    /\ written = {}
    /\ stale = {}
    /\ flash = FlashIdle

\* the recording step of update_temperature_monitoring, as far as the count
\* goes
LifetimeRecord ==
    /\ pc \in MainLoopPcs
    /\ temp_monitoring_enabled
    /\ reading_count[2] # MaxNearWrap
    /\ reading_count' = Uint32Inc(reading_count)
    /\ pc' = "poll"
    /\ handler' = "none" /\ cmd' = <<>> /\ out' = <<>>
    /\ NoRead
    /\ UNCHANGED <<ioVars, now, bootVars, blinkVars, temp_monitoring_enabled,
                   report_interval_ms, last_report_time, temperature_sum,
                   min_temp, max_temp, temp_history, history_index, recorded,
                   recent, written, stale>>
    /\ UNCHANGED flash

\* RESET_STATS, as far as the count goes
LifetimeReset ==
    /\ pc \in MainLoopPcs
    /\ reading_count' = <<0, 0>>
    /\ pc' = "sleep"
    /\ handler' = "RESET_STATS" /\ cmd' = CMD_RESET_STATS
    /\ out' = <<Msg("stats_reset", <<>>)>>
    /\ c' = LF
    /\ segment' = <<>>
    /\ UNCHANGED <<ioVars, now, bootVars, blinkVars, temp_monitoring_enabled,
                   report_interval_ms, last_report_time, temperature_sum,
                   min_temp, max_temp, temp_history, history_index, recorded,
                   recent, written, stale>>
    /\ UNCHANGED flash

LifetimeNext == LifetimeRecord \/ LifetimeReset

LifetimeSpec == LifetimeInit /\ [][LifetimeNext]_vars

\* b is the successor of a among the 32-bit values, without wrap-around
Uint32Succ(a, b) ==
    \/ b[1] = a[1] /\ b[2] = a[2] + 1
    \/ b[1] = a[1] + 1 /\ a[2] = Half - 1 /\ b[2] = 0

C31_ArmedWatchdogRestarts ==
    /\ [][ watchdog_enabled =>
              /\ watchdog_enabled'
              /\ scratch4' = scratch4
              /\ boot' = "Committed"
              /\ pc' \in {"spin", "restarted"}
         ]_vars
    /\ ((watchdog_enabled /\ reset_path \in {"RESET", "RESET_BOOTSEL"})
            ~> (pc = "restarted" /\ watchdog_enabled))

\* the chip restarted from the watchdog armed by the plain RESET
C31_Witness ==
    /\ pc = "restarted"
    /\ reset_path = "RESET"
    /\ watchdog_enabled
    /\ boot = "Committed"

\* C32: among the lines handed to runtime_process_command (no application
\* keyword matches), a line starting with RESET_BOOTSEL takes the
\* watchdog-with-marker path, a line starting with BOOTSEL the ROM path, and a
\* line starting with RESET but not with RESET_BOOTSEL the plain watchdog
\* path; the marker path is the only one that writes scratch[4], the ROM path
\* never arms the watchdog.
C32_ResetKeywordsToldApart ==
    [][ /\ (cmd' # <<>> /\ Matches(AppTable(fw), cmd') = {}) =>
              /\ IsPrefix(KW_RESET_BOOTSEL, cmd') =>
                     (reset_path' = "RESET_BOOTSEL" /\ pc' = "reset_to_bootsel")
              /\ IsPrefix(KW_BOOTSEL, cmd') =>
                     (reset_path' = "BOOTSEL" /\ pc' = "enter_bootsel")
              /\ (IsPrefix(KW_RESET, cmd') /\ ~IsPrefix(KW_RESET_BOOTSEL, cmd')) =>
                     (reset_path' = "RESET" /\ pc' = "soft_reset")
        /\ (pc = "reset_to_bootsel" /\ pc' # pc) =>
              (reset_path = "RESET_BOOTSEL" /\ scratch4' = BOOTSEL_MAGIC
                 /\ watchdog_enabled')
        /\ (pc = "enter_bootsel" /\ pc' # pc) =>
              (reset_path = "BOOTSEL" /\ scratch4' = scratch4 /\ ~watchdog_enabled')
        /\ (pc = "soft_reset" /\ pc' # pc) =>
              (reset_path = "RESET" /\ scratch4' = scratch4 /\ watchdog_enabled')
      ]_vars

\* RESET_BOOTSEL was dispatched by the LED firmware and is on the marker path
C32_Witness ==
    /\ fw = "blink"
    /\ cmd = KW_RESET_BOOTSEL
    /\ reset_path = "RESET_BOOTSEL"
    /\ pc = "reset_to_bootsel"

(***************************************************************************)
(* temperature_simple.c: a third firmware with its own line accumulator    *)
(* (cmd_buffer[32], cmd_pos) and single-letter commands.  Its loop polls   *)
(* the transport first, then makes the 5 s check, then sleeps.  The model  *)
(* keeps cmd_buffer in command_buffer, count in reading_count and          *)
(* last_temp_time in last_report_time.                                     *)
(***************************************************************************)
SIMPLE_BUFFER_SIZE == 32
SIMPLE_INTERVAL_MS == 5000

\* the chain of tests on cmd_buffer[0]
SimpleHandler(command) ==
    IF command[1] \in {84, 116} THEN "T"
    ELSE IF command[1] \in {72, 104} THEN "H"
    ELSE IF command[1] \in {83, 115} THEN "S"
    ELSE "none"

\* c == PICO_ERROR_TIMEOUT
process_commands_timeout ==
    /\ pc = "simple_poll"
    /\ ~Readable
    /\ pc' = "simple_tick"
    /\ Quiet
    /\ UNCHANGED <<ioVars, now, bootVars, appVars>>
    /\ UNCHANGED flash

\* a terminator while cmd_pos == 0
process_commands_terminator_empty ==
    /\ pc = "simple_poll"
    /\ Readable
    /\ IsTerminator(Head(wire))
    /\ Len(command_buffer) = 0
    /\ wire' = Tail(wire)
    /\ c' = Head(wire)
    /\ segment' = <<>>
    /\ pc' = "simple_tick"
    /\ Silent
    /\ UNCHANGED <<fw, chan, usb_on, command_buffer, now, bootVars, appVars>>
    /\ UNCHANGED flash

\* a terminator while cmd_pos > 0: the first character selects the response
process_commands_dispatch ==
    /\ pc = "simple_poll"
    /\ Readable
    /\ IsTerminator(Head(wire))
    /\ Len(command_buffer) > 0
    /\ wire' = Tail(wire)
    /\ c' = Head(wire)
    /\ segment' = <<>>
    /\ cmd' = command_buffer
    /\ handler' = SimpleHandler(command_buffer)
    /\ \/ /\ handler' = "T"
          /\ \E temperature \in Readings :
                 out' = <<Msg("temperature", <<temperature>>)>>
       \/ /\ handler' = "H"
          /\ out' = <<Msg("help", <<>>)>>
       \/ /\ handler' = "S"
          /\ out' = <<Msg("status", <<>>)>>
       \/ /\ handler' = "none"
          /\ out' = <<>>
    /\ command_buffer' = <<>>
    /\ pc' = "simple_tick"
    /\ UNCHANGED <<fw, chan, usb_on, now, bootVars, appVars>>
    /\ UNCHANGED flash

\* variant: the bound is sizeof(cmd_buffer), no room is left for the NUL
process_commands_store_no_nul_room ==
    /\ pc = "simple_poll"
    /\ Readable
    /\ ~IsTerminator(Head(wire))
    /\ Len(command_buffer) < SIMPLE_BUFFER_SIZE
    /\ wire' = Tail(wire)
    /\ c' = Head(wire)
    /\ segment' = Append(segment, Head(wire))
    /\ command_buffer' = Append(command_buffer, Head(wire))
    /\ pc' = "simple_tick"
    /\ Silent
    /\ UNCHANGED <<fw, chan, usb_on, now, bootVars, appVars>>
    /\ UNCHANGED flash

\* any other byte while cmd_pos < sizeof(cmd_buffer) - 1
process_commands_store ==
    /\ pc = "simple_poll"
    /\ Readable
    /\ ~IsTerminator(Head(wire))
    /\ Len(command_buffer) < SIMPLE_BUFFER_SIZE - 1
    /\ wire' = Tail(wire)
    /\ c' = Head(wire)
    /\ segment' = Append(segment, Head(wire))
    /\ command_buffer' = Append(command_buffer, Head(wire))
    /\ pc' = "simple_tick"
    /\ Silent
    /\ UNCHANGED <<fw, chan, usb_on, now, bootVars, appVars>>
    /\ UNCHANGED flash

\* any other byte while the buffer is full: the byte is dropped
process_commands_drop ==
    /\ pc = "simple_poll"
    /\ Readable
    /\ ~IsTerminator(Head(wire))
    /\ ~(Len(command_buffer) < SIMPLE_BUFFER_SIZE - 1)
    /\ wire' = Tail(wire)
    /\ c' = Head(wire)
    /\ segment' = Append(segment, Head(wire))
    /\ pc' = "simple_tick"
    /\ Silent
    /\ UNCHANGED <<fw, chan, usb_on, command_buffer, now, bootVars, appVars>>
    /\ UNCHANGED flash

\* the automatic reading of main, every 5 s: count++, the report, the LED
\* pulse with sleep_ms(100), last_temp_time
SimpleAutoReading ==
    /\ pc = "simple_tick"
    /\ pc' = "simple_sleep"
    /\ handler' = "none" /\ cmd' = <<>>
    /\ NoRead
    /\ IF AbsoluteTimeDiffUs(last_report_time, now) >= SIMPLE_INTERVAL_MS * 1000
       THEN /\ \E temperature \in Readings :
                   out' = <<Msg("auto_reading", <<reading_count + 1, temperature>>)>>
            /\ reading_count' = reading_count + 1
            /\ gpio_led' = 0
            /\ \E dt \in {0, 1} :
                   /\ now + dt <= MaxTime
                   /\ now' = now + dt
            /\ last_report_time' = now'
       ELSE /\ out' = <<>>
            /\ UNCHANGED <<now, reading_count, gpio_led, last_report_time>>
    /\ UNCHANGED <<ioVars, bootVars, led_enabled, current_delay, led_state,
                   last_blink_time, temp_monitoring_enabled, report_interval_ms,
                   temperature_sum, min_temp, max_temp, temp_history,
                   history_index, recorded, recent, written, stale>>
    /\ UNCHANGED flash

\* sleep_us(1000) at the end of the iteration
SimpleSleep ==
    /\ pc = "simple_sleep"
    /\ pc' = "simple_poll"
    /\ \E dt \in {0, 1} :
           /\ now + dt <= MaxTime
           /\ now' = now + dt
    /\ Quiet
    /\ UNCHANGED <<ioVars, bootVars, appVars>>
    /\ UNCHANGED flash

SimpleInit ==
    /\ fw = "simple"
    /\ chan \in {"usb", "uart"}
    /\ usb_on = TRUE
    /\ wire = <<>>
    /\ command_buffer = <<>>
    /\ c = PICO_ERROR_TIMEOUT
    /\ segment = <<>>
    /\ pc = "simple_poll"
    /\ now = 0
    /\ boot = "Armed"
    /\ reset_path = "none"
    /\ scratch4 = <<0, 0>>
    /\ watchdog_enabled = FALSE
    /\ handler = "none"
    /\ cmd = <<>>
    /\ out = <<>>
    /\ led_enabled = TRUE
    /\ current_delay = BLINK_DELAY_MS
    /\ led_state = FALSE
    /\ last_blink_time = 0
    /\ gpio_led = 0
    /\ temp_monitoring_enabled = TRUE
    /\ report_interval_ms = DEFAULT_REPORT_INTERVAL_MS
    /\ last_report_time = 0
    /\ reading_count = 0
    /\ temperature_sum = 0
    /\ min_temp = MIN_TEMP_SENTINEL
    /\ max_temp = MAX_TEMP_SENTINEL
    /\ temp_history = [i \in 0..(TEMP_HISTORY_SIZE - 1) |-> 0]
    /\ history_index = 0
    /\ recorded = {}
    /\ recent = <<>>
    /\ written = {}
    /\ stale = {}
    /\ flash = FlashIdle

\* the three firmwares side by side
AccumulatorInit == Init \/ SimpleInit

AccumulatorNext ==
    \/ Next
    \/ process_commands_timeout
    \/ process_commands_terminator_empty
    \/ process_commands_dispatch
    \/ process_commands_store
    \/ process_commands_drop
    \/ SimpleAutoReading
    \/ SimpleSleep

AccumulatorSpec == AccumulatorInit /\ [][AccumulatorNext]_vars

\* sizeof of the accumulator's buffer in each firmware
Capacity(f) == IF f = "simple" THEN SIMPLE_BUFFER_SIZE ELSE BUFFER_SIZE

\* C33: in every reachable state of each of the three line accumulators
\* 0 <= buffer_pos <= capacity - 1 (63 for the 64-byte buffers, 31 for the
\* 32-byte buffer of temperature_simple): a byte is stored only at an index
\* below capacity - 1, and the NUL written at buffer_pos on dispatch is inside
\* the buffer.
C33_BufferPosWithinCapacity ==
    /\ Len(command_buffer) >= 0
    /\ Len(command_buffer) <= Capacity(fw) - 1
    /\ (cmd # <<>>) => Len(cmd) <= Capacity(fw) - 1

\* the 32-byte buffer is full and a further byte of the line was dropped
C33_Witness ==
    /\ fw = "simple"
    /\ Len(command_buffer) = SIMPLE_BUFFER_SIZE - 1
    /\ Len(segment) > SIMPLE_BUFFER_SIZE

(***************************************************************************)
(* Properties of the telemetry schedule and of the aggregates.             *)
(***************************************************************************)
\* C34: a reading is recorded only by the periodic check, only when
\* monitoring is enabled and the time since last_report_time is at least the
\* report_interval_ms then in force; the recording emits exactly one report
\* and sets last_report_time, which nothing else changes, so two consecutive
\* recordings are at least that interval apart; whenever the check finds the
\* interval in force expired it records, so an accepted INTERVAL change
\* applies to the very next check.
C34_RecordOnlyWhenDue ==
    [][ /\ (fw = "temp" /\ reading_count' > reading_count) =>
              /\ pc = "tick"
              /\ temp_monitoring_enabled
              /\ (now - last_report_time) * Quantum("temp") >= report_interval_ms
              /\ reading_count' = reading_count + 1
              /\ Len(out') = 1 /\ out'[1].msg = "report"
              /\ last_report_time' = now'
              /\ now' >= now
              /\ report_interval_ms' = report_interval_ms
        /\ (fw = "temp" /\ last_report_time' # last_report_time) =>
              reading_count' = reading_count + 1
        /\ (pc = "tick" /\ pc' = "poll" /\ ReportDue) =>
              reading_count' = reading_count + 1
        /\ (fw = "temp" /\ pc = "tick" /\ pc' = "poll" /\ ~ReportDue) =>
              (reading_count' = reading_count /\ out' = <<>>)
      ]_vars

\* INTERVAL 1000 was accepted and two readings were then recorded one
\* interval apart
C34_Witness ==
    /\ fw = "temp"
    /\ report_interval_ms = 1000
    /\ reading_count = 2
    /\ last_report_time = 2
    /\ out # <<>>
    /\ out[1].msg = "report"

aggregates ==
    <<reading_count, temperature_sum, min_temp, max_temp, temp_history,
      history_index>>

\* C35: count, sum, min, max, history and history_index change only in a
\* timed recording of update_temperature_monitoring (monitoring enabled) or
\* in RESET_STATS: TEMP reads and prints the sensor without recording, every
\* other command leaves the aggregates as they are, and while monitoring is
\* disabled (after STOP_TEMP, until START_TEMP) nothing is recorded.
C35_AggregatesChangeOnlyByRecordingOrReset ==
    [][ /\ (aggregates' # aggregates) =>
              /\ fw = "temp"
              /\ \/ /\ pc = "tick" /\ cmd' = <<>>
                    /\ temp_monitoring_enabled
                    /\ out' # <<>> /\ out'[1].msg = "report"
                 \/ /\ handler' = "RESET_STATS" /\ cmd' # <<>>
        /\ (fw = "temp" /\ handler' = "TEMP") =>
              /\ aggregates' = aggregates
              /\ Len(out') = 1 /\ out'[1].msg = "temperature"
              /\ out'[1].args[1] \in Readings
        /\ (cmd' # <<>> /\ handler' # "RESET_STATS") => aggregates' = aggregates
        /\ (~temp_monitoring_enabled /\ handler' # "RESET_STATS") =>
              aggregates' = aggregates
        /\ (temp_monitoring_enabled' # temp_monitoring_enabled) =>
              handler' = (IF temp_monitoring_enabled THEN "STOP_TEMP" ELSE "START_TEMP")
      ]_vars

\* TEMP was answered while monitoring was stopped with one reading recorded
C35_Witness ==
    /\ fw = "temp"
    /\ handler = "TEMP"
    /\ ~temp_monitoring_enabled
    /\ reading_count = 1
    /\ now = MaxTime

(***************************************************************************)
(* Further invariants of the two firmwares.                                *)
(***************************************************************************)
\* C36: in every reachable state of blink_led_enhanced a disabled LED is off:
\* led_enabled == false implies led_state == false and the pin low; STOP has
\* forced the output off, and START has re-enabled the blinking.
C36_DisabledLedIsOff ==
    (fw = "blink") =>
        /\ ~led_enabled => (~led_state /\ gpio_led = 0)
        /\ (handler = "STOP") => (~led_enabled /\ ~led_state /\ gpio_led = 0)
        /\ (handler = "START") => led_enabled

\* STOP was dispatched after the one flip that had switched the LED on
C36_Witness ==
    /\ fw = "blink"
    /\ handler = "STOP"
    /\ current_delay = BLINK_DELAY_MS
    /\ last_blink_time = 2
    /\ ~led_enabled
    /\ ~led_state

\* C37: with readings as bounded integers, in every reachable state with
\* count > 0 the sum lies between min_temp * count and max_temp * count, and
\* every mean shown by STATS or by a timed report lies between the minimum
\* and the maximum shown with it.
C37_SumBetweenExtremes ==
    /\ (reading_count > 0) =>
           /\ min_temp * reading_count <= temperature_sum
           /\ temperature_sum <= max_temp * reading_count
    /\ \A i \in 1..Len(out) :
           ShowsMean(out[i]) =>
               /\ out[i].args[5] <= out[i].args[3][2]
               /\ out[i].args[3][2] <= out[i].args[4]

\* STATS after three readings that were not all equal
C37_Witness ==
    /\ handler = "STATS"
    /\ reading_count = 3
    /\ min_temp * reading_count < temperature_sum
    /\ temperature_sum < max_temp * reading_count
    /\ out # <<>>
    /\ out[1].msg = "stats"

\* C38: an INTERVAL line of at most 9 characters ('INTERVAL', or 'INTERVAL'
\* and one more character) prints the current interval and the usage hint,
\* changes no state and never gets the invalid-interval error; in a longer
\* line the argument is what atoi reads from the tenth character onwards.
C38_IntervalWithoutArgument ==
    [][ (fw = "temp" /\ cmd' # <<>> /\ IsPrefix(CMD_INTERVAL, cmd')) =>
            /\ handler' = "INTERVAL"
            /\ (Len(cmd') <= 9) =>
                   /\ out' = <<Msg("current_interval", <<report_interval_ms>>),
                               Msg("interval_usage", <<>>)>>
                   /\ report_interval_ms' = report_interval_ms
                   /\ appVars' = appVars
            /\ (Len(cmd') > 9) =>
                   LET arg == Atoi(SubSeq(cmd', 10, Len(cmd')))
                   IN  \/ /\ out' = <<Msg("interval_set", <<arg>>)>>
                          /\ report_interval_ms' = arg
                       \/ /\ out' = <<Msg("invalid_interval", <<>>)>>
                          /\ report_interval_ms' = report_interval_ms
      ]_vars

\* 'INTERVAL9' printed the interval that an earlier INTERVAL line had set
C38_Witness ==
    /\ fw = "temp"
    /\ cmd = L_INTERVAL_9
    /\ handler = "INTERVAL"
    /\ report_interval_ms = 500
    /\ out = <<Msg("current_interval", <<500>>), Msg("interval_usage", <<>>)>>

(***************************************************************************)
(* tools/runtime_flash.sh, the host's flashing tool, run with an existing  *)
(* UF2 file and without -c and -s.  flash.hpc is the position in main,     *)
(* flash.via the reset method under way, flash.bootsel whether picotool    *)
(* sees the device in BOOTSEL mode, flash.tried the methods started so     *)
(* far, flash.exit the exit status (-1 while the tool runs).  What the     *)
(* serial port, picotool, openocd and the device do is chosen freely.      *)
(***************************************************************************)
max_attempts == 10

Methods == {"auto", "serial", "picotool", "openocd"}

FlashInit ==
    /\ DeviceInit
    /\ fw = "blink"
    /\ chan = "usb"
    /\ \E method \in Methods :
           flash = [hpc |-> "start", method |-> method, via |-> "none",
                    attempt |-> 0, bootsel |-> FALSE, tried |-> <<>>,
                    loaded |-> FALSE, exit |-> -1]

\* exit N
FlashExit(f, status) == [f EXCEPT !.hpc = "done", !.exit = status]

\* a method returned non-zero: the branches of the case statement in main
FlashMethodFailed(f) ==
    IF f.method = "auto" /\ f.via = "serial"
    THEN [f EXCEPT !.hpc = "picotool_reset"]
    ELSE FlashExit(f, 1)

\* case $method in ...
FlashSelect ==
    /\ flash.hpc = "start"
    /\ flash' = [flash EXCEPT !.hpc =
                     IF flash.method \in {"auto", "serial"} THEN "serial_reset"
                     ELSE IF flash.method = "picotool" THEN "picotool_reset"
                     ELSE "openocd"]
    /\ UNCHANGED deviceVars

\* reset_via_serial: BOOTSEL is written to the port, or no port is found
reset_via_serial ==
    /\ flash.hpc = "serial_reset"
    /\ LET f == [flash EXCEPT !.via = "serial", !.tried = Append(@, "serial")]
       IN  \/ \E b \in BOOLEAN :
                 flash' = [f EXCEPT !.hpc = "wait", !.attempt = 1, !.bootsel = b]
           \/ flash' = FlashMethodFailed(f)
    /\ UNCHANGED deviceVars

\* reset_via_picotool: picotool reboot -f succeeds or fails
reset_via_picotool ==
    /\ flash.hpc = "picotool_reset"
    /\ LET f == [flash EXCEPT !.via = "picotool", !.tried = Append(@, "picotool")]
       IN  \/ \E b \in BOOLEAN :
                 flash' = [f EXCEPT !.hpc = "wait", !.attempt = 1,
                                    !.bootsel = flash.bootsel \/ b]
           \/ flash' = FlashMethodFailed(f)
    /\ UNCHANGED deviceVars

\* flash_bootsel_firmware, one turn of the loop: picotool info, then sleep 1
\* and attempt + 1, or the timeout after max_attempts polls
flash_bootsel_firmware_poll ==
    /\ flash.hpc = "wait"
    /\ IF flash.attempt <= max_attempts
       THEN IF flash.bootsel
            THEN flash' = [flash EXCEPT !.hpc = "load"]
            ELSE \E b \in BOOLEAN :
                     flash' = [flash EXCEPT !.attempt = @ + 1, !.bootsel = b]
       ELSE flash' = FlashMethodFailed(flash)
    /\ UNCHANGED deviceVars

\* picotool load, then picotool reboot whose failure is only a warning
flash_bootsel_firmware_load ==
    /\ flash.hpc = "load"
    /\ \/ flash' = FlashExit([flash EXCEPT !.loaded = TRUE], 0)
       \/ flash' = FlashMethodFailed(flash)
    /\ UNCHANGED deviceVars

\* program_via_openocd
program_via_openocd ==
    /\ flash.hpc = "openocd"
    /\ LET f == [flash EXCEPT !.via = "openocd", !.tried = Append(@, "openocd")]
       IN  \/ flash' = FlashExit([f EXCEPT !.loaded = TRUE], 0)
           \/ flash' = FlashExit(f, 1)
    /\ UNCHANGED deviceVars

FlashNext ==
    \/ FlashSelect
    \/ reset_via_serial
    \/ reset_via_picotool
    \/ flash_bootsel_firmware_poll
    \/ flash_bootsel_firmware_load
    \/ program_via_openocd

FlashSpec == FlashInit /\ [][FlashNext]_vars

\* the order in which the auto mode is said to try the methods
AutoOrder == <<"serial", "picotool", "openocd">>

\* C39: in auto mode the tool tries serial reset, picotool reset and OpenOCD
\* in that order, each only after the one before it failed, and gives up only
\* when all three have been tried; firmware is loaded only after the device
\* was seen in BOOTSEL mode within 10 polls; the exit status is 0 exactly
\* when one method completed the flash.
C39_AutoTriesAllMethodsInOrder ==
    (flash.hpc # "idle" /\ flash.method = "auto") =>
        /\ flash.tried = SubSeq(AutoOrder, 1, Len(flash.tried))
        /\ (flash.exit = 1) => flash.tried = AutoOrder
        /\ (flash.exit = 0) <=> flash.loaded
        /\ (flash.hpc = "load") => (flash.bootsel /\ flash.attempt <= max_attempts)
        /\ flash.attempt <= max_attempts + 1

====
